---- MODULE Spec2Model ----
(***************************************************************************)
(* SmartMoneyAlerts: the anomaly analyzer (core/analyzer.py), the virality *)
(* scorer and tier ladder (core/scorer.py), the congressional and 13F      *)
(* variants (scrapers/congress.py, scrapers/hedge_funds.py), the           *)
(* insider_trades table with its two lookups (core/database.py) and the    *)
(* scrape_and_process loop (main.py).                                      *)
(*                                                                         *)
(* Conventions of the model                                                *)
(*  - text is a TLA+ string; Python's `x in s` on strings is InStr(x, s).  *)
(*  - money of insider trades is counted in thousands of dollars: every    *)
(*    threshold of the code is a multiple of $1,000 and the code only      *)
(*    compares with >=, so floor(v / 1000) decides each comparison as v.   *)
(*  - 13F portfolio values are counted in millions of dollars for the same *)
(*    reason (thresholds are multiples of $100,000,000).                   *)
(*  - a date is a day number; 'YYYY-MM-DD' strings order as their days.    *)
(*  - Python's None is NoneStr in a text field and NoneInt in a number     *)
(*    field; an absent key behaves as the default dict.get() passes.       *)
(***************************************************************************)
EXTENDS Integers, Sequences, FiniteSets, TLC

VARIABLES
    tq,     \* tier ladder: two scores and the tiers the three ladders gave
    sq,     \* scorer: one record of one variant and the score/tier it got
    aq,     \* analyzer: one insider record, its annotations, the clock
    db,     \* insider_trades table, rows in insertion order (id = index)
    now,    \* today's day number (datetime.now(), SQLite date('now'))
    run,    \* scrape_and_process: its phase, its results, the last record
    rl,     \* a RateLimiter, the threads calling acquire and the clock
    pub,    \* the publishers: what was submitted to them, their limits
    ms      \* a MultiRateLimiter and the one thread that calls it

vars == <<tq, sq, aq, db, now, run, rl, pub, ms>>

(***************************************************************************)
(* Python values                                                           *)
(***************************************************************************)
NoneStr == "<None>"
NoneInt == -1

Truthy(s) == s # NoneStr /\ s # ""

Min2(a, b) == IF a <= b THEN a ELSE b
Max2(a, b) == IF a >= b THEN a ELSE b

\* sub in s, for Python strings
InStr(sub, s) ==
    \E i \in 1..(Len(s) - Len(sub) + 1) : SubSeq(s, i, i + Len(sub) - 1) = sub

AnyIn(subs, s) == \E sub \in subs : InStr(sub, s)

UpperChar(c) ==
    CASE c = "a" -> "A" [] c = "b" -> "B" [] c = "c" -> "C" [] c = "d" -> "D"
      [] c = "e" -> "E" [] c = "f" -> "F" [] c = "g" -> "G" [] c = "h" -> "H"
      [] c = "i" -> "I" [] c = "j" -> "J" [] c = "k" -> "K" [] c = "l" -> "L"
      [] c = "m" -> "M" [] c = "n" -> "N" [] c = "o" -> "O" [] c = "p" -> "P"
      [] c = "q" -> "Q" [] c = "r" -> "R" [] c = "s" -> "S" [] c = "t" -> "T"
      [] c = "u" -> "U" [] c = "v" -> "V" [] c = "w" -> "W" [] c = "x" -> "X"
      [] c = "y" -> "Y" [] c = "z" -> "Z" [] OTHER -> c

\* s[lo..hi] in upper case, by halves
RECURSIVE UpperOf(_, _, _)
UpperOf(s, lo, hi) ==
    IF lo > hi THEN ""
    ELSE IF lo = hi THEN UpperChar(SubSeq(s, lo, lo))
    ELSE LET mid == (lo + hi) \div 2
         IN  UpperOf(s, lo, mid) \o UpperOf(s, mid + 1, hi)

\* str.upper()
Upper(s) == UpperOf(s, 1, Len(s))

LowerChar(c) ==
    CASE c = "S" -> "s" [] c = "E" -> "e" [] c = "N" -> "n" [] c = "A" -> "a"
      [] c = "T" -> "t" [] c = "H" -> "h" [] c = "O" -> "o" [] c = "U" -> "u"
      [] OTHER -> c

\* s[lo..hi] in lower case, by halves
RECURSIVE LowerOf(_, _, _)
LowerOf(s, lo, hi) ==
    IF lo > hi THEN ""
    ELSE IF lo = hi THEN LowerChar(SubSeq(s, lo, lo))
    ELSE LET mid == (lo + hi) \div 2
         IN  LowerOf(s, lo, mid) \o LowerOf(s, mid + 1, hi)

\* str.lower(), on the letters the chamber names are written with
Lower(s) == LowerOf(s, 1, Len(s))

RECURSIVE SumSeq(_)
SumSeq(seq) == IF Len(seq) = 0 THEN 0 ELSE Head(seq) + SumSeq(Tail(seq))

\* [seq[i] for i in idx], in the order of seq: a list comprehension's filter
RECURSIVE Pick(_, _)
Pick(seq, idx) ==
    IF idx = {} THEN <<>>
    ELSE LET last == CHOOSE i \in idx : \A j \in idx : j <= i
         IN  Append(Pick(seq, idx \ {last}), seq[last])

Range(seq) == {seq[i] : i \in 1..Len(seq)}

\* dict.get(key, default)
Get(rec, key, default) == IF key \in DOMAIN rec THEN rec[key] ELSE default

(***************************************************************************)
(* json.dumps / json.loads of a list of tag names                          *)
(***************************************************************************)
Quote == "\""

RECURSIVE JsonItems(_)
JsonItems(seq) ==
    IF Len(seq) = 0 THEN ""
    ELSE IF Len(seq) = 1 THEN Quote \o seq[1] \o Quote
         ELSE Quote \o seq[1] \o Quote \o ", " \o JsonItems(Tail(seq))

JsonDumps(seq) == "[" \o JsonItems(seq) \o "]"

\* the positions of the quotes of s
JsonQuotes(s) == {i \in 1..Len(s) : SubSeq(s, i, i) = Quote}

\* the position of the k-th quote among the positions q
JsonQuote(q, k) == CHOOSE i \in q : Cardinality({j \in q : j < i}) = k - 1

\* the k-th item lies between the quotes number 2k-1 and 2k
JsonBetween(s, q) ==
    [k \in 1..(Cardinality(q) \div 2) |->
        SubSeq(s, JsonQuote(q, 2 * k - 1) + 1, JsonQuote(q, 2 * k) - 1)]

JsonLoads(s) == JsonBetween(s, JsonQuotes(s))

(***************************************************************************)
(* config/tickers.py: the sets, cut to the members the model's tickers     *)
(* can hit plus one member of each set that is in no other                 *)
(***************************************************************************)
FAANG == {"META", "AAPL", "AMZN", "NFLX", "GOOGL", "GOOG"}

MEME_STOCKS == {"TSLA", "GME", "AMC", "BBBY", "PLTR", "NIO", "RIVN", "LCID",
                "SOFI", "HOOD", "COIN", "MARA", "RIOT", "NVDA", "AMD"}

MAGNIFICENT_7 == {"AAPL", "MSFT", "GOOGL", "GOOG", "AMZN", "NVDA", "META", "TSLA"}

SP500 == {"AAPL", "MSFT", "AMZN", "NVDA", "GOOGL", "GOOG", "META", "TSLA",
          "UNH", "JNJ", "JPM", "V", "PG", "XOM"}

(***************************************************************************)
(* config/settings.py and core/scorer.py: the tier ladder                  *)
(***************************************************************************)
TIER1_SCORE == 70
TIER2_SCORE == 50
TIER3_SCORE == 30
MAX_SCORE == 100

\* the ladder without its third step
get_tier_two_steps(score) ==
    IF score >= TIER1_SCORE THEN 1 ELSE IF score >= TIER2_SCORE THEN 2 ELSE 4

get_tier(score) ==
    IF score >= TIER1_SCORE THEN 1
    ELSE IF score >= TIER2_SCORE THEN 2
    ELSE IF score >= TIER3_SCORE THEN 3
    ELSE 4

\* a ladder with strict comparisons
congress_tier_strict(score) ==
    IF score > 70 THEN 1 ELSE IF score > 50 THEN 2 ELSE IF score > 30 THEN 3 ELSE 4

\* the ladder scrape_congress_trades writes inline
congress_tier(score) ==
    IF score >= 70 THEN 1 ELSE IF score >= 50 THEN 2 ELSE IF score >= 30 THEN 3 ELSE 4

\* the ladder scrape_hedge_fund_filings writes inline
hedge_fund_tier(score) ==
    IF score >= 70 THEN 1 ELSE IF score >= 50 THEN 2 ELSE IF score >= 30 THEN 3 ELSE 4

(***************************************************************************)
(* core/scorer.py: calculate_virality_score                                *)
(***************************************************************************)
\* role + ' ' + officer_title, both upper-cased
role_check(trade) ==
    Upper(Get(trade, "insider_role", "")) \o " " \o
    (IF Truthy(Get(trade, "officer_title", NoneStr))
     THEN Upper(trade.officer_title) ELSE "")

\* the role ladder, before the sale damping
role_ladder(trade, rc) ==
    IF InStr("CEO", rc) \/ InStr("CHIEF EXECUTIVE", rc) THEN 20
    ELSE IF InStr("FOUNDER", rc) THEN 20
    ELSE IF InStr("CFO", rc) \/ InStr("CHIEF FINANCIAL", rc) THEN 18
    ELSE IF InStr("COO", rc) \/ InStr("CHIEF OPERATING", rc) THEN 16
    ELSE IF InStr("CHAIRMAN", rc) /\ ~InStr("VICE", rc) THEN 16
    ELSE IF InStr("CTO", rc) \/ InStr("CHIEF TECHNOLOGY", rc) THEN 14
    ELSE IF InStr("PRESIDENT", rc) THEN 14
    ELSE IF Get(trade, "is_ten_percent_owner", 0) # 0 THEN 12
    ELSE IF InStr("VP", rc) \/ InStr("VICE PRESIDENT", rc) THEN 8
    ELSE IF InStr("GENERAL COUNSEL", rc) THEN 8
    ELSE IF Get(trade, "is_director", 0) # 0 THEN 6
    ELSE IF Get(trade, "is_officer", 0) # 0 THEN 6
    ELSE 2

base_role_score(trade) == role_ladder(trade, role_check(trade))

\* int(role_score * 0.6)
sale_damped(rs) == (rs * 6) \div 10

\* if transaction_type == 'S' and role_score >= 14
damp_if_sale(trade, rs) ==
    IF Get(trade, "transaction_type", "P") = "S" /\ rs >= 14
    THEN sale_damped(rs) ELSE rs

role_score(trade) == damp_if_sale(trade, base_role_score(trade))

size_ladder(tt, value) ==
    IF tt = "P"
    THEN IF value >= 50000 THEN 20
         ELSE IF value >= 25000 THEN 18
         ELSE IF value >= 10000 THEN 16
         ELSE IF value >= 5000 THEN 14
         ELSE IF value >= 2000 THEN 12
         ELSE IF value >= 1000 THEN 10
         ELSE IF value >= 500 THEN 7
         ELSE IF value >= 250 THEN 5
         ELSE IF value >= 100 THEN 3
         ELSE 1
    ELSE IF value >= 100000 THEN 18
         ELSE IF value >= 50000 THEN 15
         ELSE IF value >= 25000 THEN 12
         ELSE IF value >= 10000 THEN 8
         ELSE IF value >= 5000 THEN 5
         ELSE 2

size_score(trade) ==
    size_ladder(Get(trade, "transaction_type", "P"), Get(trade, "total_value", 0))

\* trade.get('ticker', '').upper() if trade.get('ticker') else ''
score_ticker(trade) ==
    IF Truthy(Get(trade, "ticker", NoneStr)) THEN Upper(trade.ticker) ELSE ""

company_ladder(ticker) ==
    IF ticker \in MAGNIFICENT_7 THEN 20
    ELSE IF ticker \in MEME_STOCKS THEN 18
    ELSE IF ticker \in FAANG THEN 16
    ELSE IF ticker \in SP500 THEN 10
    ELSE IF ticker # "" THEN 4
    ELSE 0

company_score(trade) == company_ladder(score_ticker(trade))

BuyTable == {"ceo_founder_buy", "cfo_buy", "chairman_buy", "position_doubled",
             "first_ever_purchase", "seller_turned_buyer", "consecutive_buying",
             "cluster_buy", "first_buy_in_years", "first_buy_in_year",
             "major_shareholder_buy", "first_purchase", "multiple_buyers",
             "massive_buy", "large_buy", "significant_buy", "million_plus_buy",
             "unusually_large", "larger_than_usual", "major_position_increase",
             "significant_position_increase", "director_buy"}

\* buy_anomaly_scores.get(a, 2)
buy_anomaly_scores(a) ==
    CASE a = "ceo_founder_buy" -> 15
      [] a = "cfo_buy" -> 12
      [] a = "chairman_buy" -> 10
      [] a = "position_doubled" -> 12
      [] a = "first_ever_purchase" -> 10
      [] a = "seller_turned_buyer" -> 10
      [] a = "consecutive_buying" -> 10
      [] a = "cluster_buy" -> 12
      [] a = "first_buy_in_years" -> 10
      [] a = "first_buy_in_year" -> 7
      [] a = "major_shareholder_buy" -> 8
      [] a = "first_purchase" -> 6
      [] a = "multiple_buyers" -> 5
      [] a = "massive_buy" -> 10
      [] a = "large_buy" -> 7
      [] a = "significant_buy" -> 5
      [] a = "million_plus_buy" -> 3
      [] a = "unusually_large" -> 8
      [] a = "larger_than_usual" -> 4
      [] a = "major_position_increase" -> 6
      [] a = "significant_position_increase" -> 3
      [] a = "director_buy" -> 2
      [] OTHER -> 2

SellTable == {"ceo_large_sale", "cfo_sale", "complete_exit", "cluster_sell",
              "major_shareholder_sale", "ceo_sale", "major_reduction",
              "significant_reduction", "massive_sale", "large_sale"}

\* sell_anomaly_scores.get(a, 2)
sell_anomaly_scores(a) ==
    CASE a = "ceo_large_sale" -> 12
      [] a = "cfo_sale" -> 10
      [] a = "complete_exit" -> 12
      [] a = "cluster_sell" -> 15
      [] a = "major_shareholder_sale" -> 10
      [] a = "ceo_sale" -> 6
      [] a = "major_reduction" -> 8
      [] a = "significant_reduction" -> 4
      [] a = "massive_sale" -> 8
      [] a = "large_sale" -> 5
      [] OTHER -> 2

\* trade.get('anomalies', '[]'), parsed
score_anomalies(trade) == JsonLoads(Get(trade, "anomalies", "[]"))

RECURSIVE anomaly_points(_, _)
anomaly_points(anomalies, is_purchase) ==
    IF Len(anomalies) = 0 THEN 0
    ELSE (IF is_purchase THEN buy_anomaly_scores(Head(anomalies))
          ELSE sell_anomaly_scores(Head(anomalies)))
         + anomaly_points(Tail(anomalies), is_purchase)

\* sum(1 for a in anomalies if a in members)
CountIn(anomalies, members) ==
    Cardinality({i \in 1..Len(anomalies) : anomalies[i] \in members})

StrongBuySignals == {"ceo_founder_buy", "cfo_buy", "cluster_buy", "position_doubled",
                     "first_ever_purchase", "consecutive_buying", "massive_buy"}

WarningSignals == {"complete_exit", "cluster_sell", "cfo_sale", "ceo_large_sale"}

ANOMALY_CAP == 40

capped_anomaly_score(trade) ==
    Min2(anomaly_points(score_anomalies(trade),
                        Get(trade, "transaction_type", "P") = "P"), ANOMALY_CAP)

signal_bonus(tt, strong, warn) ==
    (IF tt = "P" THEN (IF strong >= 3 THEN 10 ELSE IF strong >= 2 THEN 5 ELSE 0)
     ELSE 0)
    + (IF tt = "S" /\ warn >= 2 THEN 8 ELSE 0)

signal_counts(tt, anomalies) ==
    signal_bonus(tt, CountIn(anomalies, StrongBuySignals),
                 CountIn(anomalies, WarningSignals))

multi_signal_bonus(trade) ==
    signal_counts(Get(trade, "transaction_type", "P"), score_anomalies(trade))

\* not ticker or ticker in ['N/A', 'NONE', 'None', '']
unusable(ticker) == ticker = "" \/ ticker \in {"N/A", "NONE", "None", ""}

no_usable_ticker(trade) == unusable(score_ticker(trade))

\* the last step without its upper limit
floor_score(score) == Max2(score, 0)

\* the last step of calculate_virality_score
clamp_score(score) == Min2(Max2(score, 0), MAX_SCORE)

\* the five components of the score
component_sum(trade) ==
    role_score(trade) + size_score(trade) + company_score(trade)
    + capped_anomaly_score(trade) + multi_signal_bonus(trade)

\* a ticker penalty that leaves a record at least 5 points
ticker_penalty_keeps_five(trade, score) ==
    IF no_usable_ticker(trade) THEN Max2(score - 30, 5) ELSE score

\* lines 235-237: no ticker to post with
ticker_penalty(trade, score) ==
    IF no_usable_ticker(trade) THEN Max2(score - 30, 0) ELSE score

\* lines 239-241: a value too large to be true
value_penalty(trade, score) ==
    IF Get(trade, "total_value", 0) >= 1000000 THEN Max2(score - 20, 0) ELSE score

\* lines 243-245: a senior insider of a Magnificent 7 company
mag7_bonus(trade, score) ==
    IF score_ticker(trade) \in MAGNIFICENT_7 /\ role_score(trade) >= 14
    THEN score + 5 ELSE score

calculate_virality_score(trade) ==
    clamp_score(mag7_bonus(trade,
                    value_penalty(trade, ticker_penalty(trade, component_sum(trade)))))

\* a score_and_tier that also rewrites a field of the record it was given:
\* the value, in dollars
with_score_in_dollars(trade, score) ==
    [virality_score |-> score, tier |-> get_tier(score),
     total_value |-> trade.total_value * 1000] @@ trade

\* score_and_tier: the two fields it sets
with_score(trade, score) ==
    [virality_score |-> score, tier |-> get_tier(score)] @@ trade

score_and_tier(trade) == with_score(trade, calculate_virality_score(trade))

\* explain_score, lines 314-323: the role points it reports
explain_role_score(trade, rc) ==
    IF InStr("CEO", rc) \/ InStr("FOUNDER", rc) THEN 20
    ELSE IF InStr("CFO", rc) THEN 18
    ELSE IF Get(trade, "is_director", 0) # 0 THEN 6
    ELSE 0

\* lines 326-331
explain_size_score(tt, value) ==
    IF tt = "P" /\ value >= 10000 THEN 16
    ELSE IF tt = "P" /\ value >= 1000 THEN 10
    ELSE 0

\* lines 334-342
explain_company_score(ticker) ==
    IF ticker \in MAGNIFICENT_7 THEN 20
    ELSE IF ticker \in MEME_STOCKS THEN 18
    ELSE IF ticker \in SP500 THEN 10
    ELSE 0

\* explain_score: the breakdown it returns, without the list of details
explain_score(trade) ==
    [role_score |-> explain_role_score(trade, role_check(trade)),
     size_score |-> explain_size_score(Get(trade, "transaction_type", "P"),
                                       Get(trade, "total_value", 0)),
     company_score |-> explain_company_score(score_ticker(trade)),
     anomaly_score |-> 0, bonuses |-> 0, penalties |-> 0,
     final_score |-> calculate_virality_score(trade)]

(***************************************************************************)
(* scrapers/congress.py: CongressAnalyzer, CongressScorer and              *)
(* scrape_congress_trades. amount_high is in dollars.                      *)
(***************************************************************************)
Text(msg, arg) == [text |-> msg, arg |-> arg]

\* the disclosure check with the limit itself counted as late
disclosure_tags_inclusive(days) ==
    IF days >= 45 THEN <<"late_disclosure">>
    ELSE IF days > 30 THEN <<"slow_disclosure">> ELSE <<>>

\* lines 324-330: late and slow disclosure
disclosure_tags(days) ==
    IF days > 45 THEN <<"late_disclosure">>
    ELSE IF days > 30 THEN <<"slow_disclosure">> ELSE <<>>

congress_anomalies(trade) ==
    LET amount_high == Get(trade, "amount_high", 0)
        days == Get(trade, "days_to_disclose", 0)
    IN  (IF Get(trade, "is_high_profile", FALSE)
         THEN <<"high_profile_politician">> ELSE <<>>)
        \o (IF amount_high >= 1000000 THEN <<"million_plus_trade">>
            ELSE IF amount_high >= 500000 THEN <<"large_trade">> ELSE <<>>)
        \o disclosure_tags(days)
        \o (IF Get(trade, "ticker", "") \in MEME_STOCKS THEN <<"meme_stock">> ELSE <<>>)
        \o (IF Get(trade, "transaction_type", "") = "purchase"
            THEN <<"purchase">> ELSE <<>>)

congress_anomaly_texts(trade) ==
    LET amount_high == Get(trade, "amount_high", 0)
        days == Get(trade, "days_to_disclose", 0)
    IN  (IF Get(trade, "is_high_profile", FALSE)
         THEN <<Text("is a high-profile member", 0)>> ELSE <<>>)
        \o (IF amount_high >= 1000000 THEN <<Text("M+ trade", amount_high \div 100000)>>
            ELSE IF amount_high >= 500000 THEN <<Text("$500K+ trade", 0)>> ELSE <<>>)
        \o (IF days > 45 THEN <<Text("days after trade (45-day limit)", days)>>
            ELSE IF days > 30 THEN <<Text("days after trade", days)>> ELSE <<>>)
        \o (IF Get(trade, "ticker", "") \in MEME_STOCKS
            THEN <<Text("Trading meme stock", 0)>> ELSE <<>>)

\* CongressAnalyzer.analyze
congress_analyze(trade) ==
    [anomalies |-> JsonDumps(congress_anomalies(trade)),
     anomaly_texts |-> congress_anomaly_texts(trade)] @@ trade

\* CongressScorer.score
congress_score(trade) ==
    LET amount_high == Get(trade, "amount_high", 0)
        ticker == Get(trade, "ticker", "")
        anomalies == Range(JsonLoads(Get(trade, "anomalies", "[]")))
    IN  Min2(
          (IF Get(trade, "is_high_profile", FALSE) THEN 25 ELSE 10)
        + (IF Lower(Get(trade, "politician_chamber", "")) = "senate" THEN 5 ELSE 0)
        + (IF amount_high >= 5000000 THEN 25
           ELSE IF amount_high >= 1000000 THEN 20
           ELSE IF amount_high >= 500000 THEN 15
           ELSE IF amount_high >= 250000 THEN 10
           ELSE IF amount_high >= 100000 THEN 5
           ELSE 0)
        + (IF ticker \in MEME_STOCKS THEN 20
           ELSE IF ticker \in SP500 THEN 12
           ELSE IF Truthy(ticker) THEN 5
           ELSE 0)
        + (IF "late_disclosure" \in anomalies THEN 15 ELSE 0)
        + (IF "million_plus_trade" \in anomalies THEN 10 ELSE 0)
        + (IF "purchase" \in anomalies THEN 5 ELSE 0)
        + (IF Get(trade, "transaction_type", "") = "purchase" THEN 5 ELSE 0),
        MAX_SCORE)

\* the body of scrape_congress_trades' loop
scrape_congress_trade(trade) ==
    LET analyzed == congress_analyze(trade)
        score == congress_score(analyzed)
    IN  [virality_score |-> score, tier |-> congress_tier(score)] @@ analyzed

(***************************************************************************)
(* scrapers/hedge_funds.py: HedgeFundAnalyzer, HedgeFundScorer and         *)
(* scrape_hedge_fund_filings. total_value is in millions of dollars;       *)
(* top_holdings is the list of the holdings' tickers.                      *)
(***************************************************************************)
RECURSIVE holding_tags(_)
holding_tags(tickers) ==
    IF Len(tickers) = 0 THEN <<>>
    ELSE IF Head(tickers) \in MEME_STOCKS THEN <<"meme_stock_holding">>
    ELSE IF Head(tickers) \in MAGNIFICENT_7 THEN <<"mag7_holding">>
    ELSE holding_tags(Tail(tickers))

hedge_fund_anomalies(filing) ==
    LET total_value == Get(filing, "total_value", 0)
        top == Get(filing, "top_holdings", <<>>)
    IN  (IF Get(filing, "is_famous", FALSE) THEN <<"famous_fund">> ELSE <<>>)
        \o (IF total_value >= 10000 THEN <<"huge_portfolio">>
            ELSE IF total_value >= 1000 THEN <<"billion_portfolio">> ELSE <<>>)
        \o holding_tags(SubSeq(top, 1, Min2(Len(top), 5)))

\* HedgeFundAnalyzer.analyze (the tag list; the texts are not read again)
hedge_fund_analyze(filing) ==
    [anomalies |-> JsonDumps(hedge_fund_anomalies(filing))] @@ filing

\* HedgeFundScorer.score
hedge_fund_score(filing) ==
    LET total_value == Get(filing, "total_value", 0)
        anomalies == Range(JsonLoads(Get(filing, "anomalies", "[]")))
        position_count == Get(filing, "position_count", 0)
    IN  Min2(
          (IF Get(filing, "is_famous", FALSE) THEN 35 ELSE 5)
        + (IF total_value >= 50000 THEN 25
           ELSE IF total_value >= 10000 THEN 20
           ELSE IF total_value >= 1000 THEN 15
           ELSE IF total_value >= 100 THEN 10
           ELSE 5)
        + (IF "meme_stock_holding" \in anomalies THEN 15 ELSE 0)
        + (IF "famous_fund" \in anomalies THEN 10 ELSE 0)
        + (IF position_count >= 100 THEN 10
           ELSE IF position_count >= 50 THEN 5
           ELSE 0),
        MAX_SCORE)

\* the body of scrape_hedge_fund_filings' loop
scrape_hedge_fund_filing(filing) ==
    LET analyzed == hedge_fund_analyze(filing)
        score == hedge_fund_score(analyzed)
    IN  [virality_score |-> score, tier |-> hedge_fund_tier(score)] @@ analyzed

(***************************************************************************)
(* core/database.py: the two lookups of the analyzer, over the rows of     *)
(* insider_trades                                                          *)
(***************************************************************************)
\* ORDER BY filing_date DESC; rows of one date keep their insertion order
RECURSIVE OrderByFilingDateDesc(_)
OrderByFilingDateDesc(rows) ==
    IF Len(rows) = 0 THEN <<>>
    ELSE LET best == CHOOSE i \in 1..Len(rows) :
                        \A j \in 1..Len(rows) :
                            \/ rows[j].filing_date < rows[i].filing_date
                            \/ (rows[j].filing_date = rows[i].filing_date /\ i <= j)
         IN  <<rows[best]>> \o
             OrderByFilingDateDesc(SubSeq(rows, 1, best - 1) \o
                                   SubSeq(rows, best + 1, Len(rows)))

\* WHERE ticker = ? AND transaction_type = 'P' AND filing_date >= date('now', '-N days')
get_recent_trades_for_ticker(rows, ticker, days, today) ==
    OrderByFilingDateDesc(Pick(rows, {i \in 1..Len(rows) :
        /\ rows[i].ticker = ticker
        /\ rows[i].transaction_type = "P"
        /\ rows[i].filing_date >= today - days}))

HISTORY_LIMIT == 100

\* WHERE insider_cik = ? [AND ticker = ?] ORDER BY filing_date DESC LIMIT 100
get_insider_history(rows, insider_cik, ticker) ==
    LET hit == OrderByFilingDateDesc(Pick(rows, {i \in 1..Len(rows) :
                   /\ rows[i].insider_cik = insider_cik
                   /\ (Truthy(ticker) => rows[i].ticker = ticker)}))
    IN  SubSeq(hit, 1, Min2(Len(hit), HISTORY_LIMIT))

(***************************************************************************)
(* core/analyzer.py: TradeAnalyzer.analyze, check by check. Each check     *)
(* gives the tags and texts it appends and whether it raised an exception  *)
(* no handler of analyze catches (a comparison of None with a number, or   *)
(* None.upper()). `fails` holds the lookups that raise in this call.       *)
(***************************************************************************)
Step(tags, texts) == [a |-> tags, t |-> texts, x |-> FALSE]
Nothing == Step(<<>>, <<>>)
Raised == [a |-> <<>>, t |-> <<>>, x |-> TRUE]

\* one check after another; an exception ends the call where it is raised
Then(s1, s2) ==
    IF s1.x THEN s1 ELSE [a |-> s1.a \o s2.a, t |-> s1.t \o s2.t, x |-> s2.x]

CLUSTER_DAYS == 14

analyze_role_check(trade) ==
    Upper(Get(trade, "insider_role", "")) \o " " \o
    (IF Truthy(Get(trade, "officer_title", NoneStr))
     THEN Upper(trade.officer_title) ELSE "")

IsCeo(rc) == AnyIn({"CEO", "FOUNDER", "CHIEF EXECUTIVE"}, rc)
IsCfo(rc) == AnyIn({"CFO", "CHIEF FINANCIAL"}, rc)
IsChairman(rc) == InStr("CHAIRMAN", rc) /\ ~InStr("VICE", rc)

\* lines 37-49: reading the fields
read_fields(trade) ==
    IF Get(trade, "insider_role", "") = NoneStr THEN Raised ELSE Nothing

\* lines 54-73: the role and ownership tags of a purchase
purchase_role_tags(trade) ==
    LET rc == analyze_role_check(trade) IN
    Then(IF IsCeo(rc)
         THEN Step(<<"ceo_founder_buy">>,
                   <<Text("CEO/Founder buying = maximum conviction signal", 0)>>)
         ELSE IF IsCfo(rc)
         THEN Step(<<"cfo_buy">>,
                   <<Text("CFO buying = knows the financials inside out", 0)>>)
         ELSE Nothing,
    Then(IF IsChairman(rc)
         THEN Step(<<"chairman_buy">>, <<Text("Chairman buying shares", 0)>>)
         ELSE Nothing,
         IF Get(trade, "is_ten_percent_owner", 0) # 0
         THEN Step(<<"major_shareholder_buy">>,
                   <<Text("Major shareholder (10%+ owner) adding to position", 0)>>)
         ELSE Nothing))

\* lines 75-91: position increase and first-ever purchase
position_delta_tags(trade) ==
    LET shares == Get(trade, "shares", 0)
        after == Get(trade, "shares_owned_after", 0)
        pct == IF after > shares THEN (shares * 100) \div (after - shares) ELSE 0
        doubled == after > shares /\ shares * 100 >= 100 * (after - shares)
        major == after > shares /\ shares * 100 >= 50 * (after - shares)
        signif == after > shares /\ shares * 100 >= 25 * (after - shares)
    IN  IF shares = NoneInt \/ after = NoneInt THEN Raised
        ELSE Then(
            IF shares > 0 /\ after > 0
            THEN IF doubled
                 THEN Step(<<"position_doubled">>,
                           <<Text("Doubled their position or more", pct)>>)
                 ELSE IF major
                 THEN Step(<<"major_position_increase">>,
                           <<Text("Increased position by", pct)>>)
                 ELSE IF signif
                 THEN Step(<<"significant_position_increase">>, <<>>)
                 ELSE Nothing
            ELSE Nothing,
            IF after > 0 /\ after = shares
            THEN Step(<<"first_ever_purchase">>,
                      <<Text("First time owning shares in this company", 0)>>)
            ELSE Nothing)

\* lines 96-113: the role and ownership tags of a sale
sale_role_tags(trade) ==
    LET rc == analyze_role_check(trade)
        total_value == Get(trade, "total_value", 0)
    IN  Then(IF IsCeo(rc)
             THEN IF total_value = NoneInt THEN Raised
                  ELSE IF total_value >= 10000
                  THEN Step(<<"ceo_large_sale">>,
                            <<Text("CEO selling significant stake", 0)>>)
                  ELSE Step(<<"ceo_sale">>, <<>>)
             ELSE IF IsCfo(rc)
             THEN Step(<<"cfo_sale">>,
                       <<Text("CFO reducing position - watch closely", 0)>>)
             ELSE Nothing,
             IF Get(trade, "is_ten_percent_owner", 0) # 0
             THEN Step(<<"major_shareholder_sale">>,
                       <<Text("10%+ owner reducing stake", 0)>>)
             ELSE Nothing)

\* lines 115-125: complete exit and reductions
sale_severity_tags(trade) ==
    LET shares == Get(trade, "shares", 0)
        after == Get(trade, "shares_owned_after", 0)
    IN  IF after = 0
        THEN IF shares = NoneInt THEN Raised
             ELSE IF shares > 0
             THEN Step(<<"complete_exit">>,
                       <<Text("Sold entire position - complete exit", 0)>>)
             ELSE Nothing
        ELSE IF after = NoneInt THEN Raised
        ELSE IF after > 0
        THEN IF shares = NoneInt THEN Raised
             ELSE IF shares > 0
             THEN LET sell_pct == (shares * 100) \div (after + shares) IN
                  IF shares * 100 >= 75 * (after + shares)
                  THEN Step(<<"major_reduction">>, <<Text("% of holdings sold", sell_pct)>>)
                  ELSE IF shares * 100 >= 50 * (after + shares)
                  THEN Step(<<"significant_reduction">>, <<>>)
                  ELSE Nothing
             ELSE Nothing
        ELSE Nothing

\* the cluster check without its try/except: a failed lookup leaves analyze
cluster_tags_uncaught(trade, rows, today, fails) ==
    IF Truthy(Get(trade, "ticker", NoneStr)) /\ "recent" \in fails
    THEN Raised ELSE Nothing

\* lines 130-155: cluster activity
\* set(t['insider_cik'] for t in recent_trades if t['transaction_type'] == side)
unique_insiders(recent_trades, side) ==
    {recent_trades[i].insider_cik : i \in
        {j \in 1..Len(recent_trades) : recent_trades[j].transaction_type = side}}

\* lines 145-152: the tags, from the numbers of buyers and of sellers
cluster_ladder(tt, buyers, sellers) ==
    Then(IF tt = "P" /\ buyers >= 3
         THEN Step(<<"cluster_buy">>, <<Text("insiders buying in last 2 weeks", buyers)>>)
         ELSE IF tt = "P" /\ buyers >= 2
         THEN Step(<<"multiple_buyers">>, <<>>)
         ELSE Nothing,
         IF tt = "S" /\ sellers >= 3
         THEN Step(<<"cluster_sell">>,
                   <<Text("insiders selling - potential red flag", sellers)>>)
         ELSE Nothing)

cluster_of(trade, recent_trades) ==
    cluster_ladder(Get(trade, "transaction_type", "P"),
                   Cardinality(unique_insiders(recent_trades, "P")),
                   Cardinality(unique_insiders(recent_trades, "S")))

cluster_tags(trade, rows, today, fails) ==
    IF ~Truthy(Get(trade, "ticker", NoneStr)) \/ "recent" \in fails THEN Nothing
    ELSE cluster_of(trade, get_recent_trades_for_ticker(rows, Get(trade, "ticker", NoneStr),
                                                        CLUSTER_DAYS, today))

\* lines 160-208: the insider's history at this company
\* [h for h in history if h['transaction_type'] == side]
of_side(history, side) ==
    Pick(history, {i \in 1..Len(history) : history[i].transaction_type = side})

\* lines 166-205: the tags, from the purchases and the sales of the history
history_ladder(today, purchases, sales) ==
    LET days_since == today - purchases[2].filing_date
        span == purchases[1].filing_date - purchases[3].filing_date
    IN  Then(
            IF Len(purchases) <= 1
            THEN Step(<<"first_purchase">>,
                      <<Text("First recorded purchase at this company", 0)>>)
            ELSE IF days_since > 730
            THEN Step(<<"first_buy_in_years">>,
                      <<Text("First buy in years+", days_since \div 365)>>)
            ELSE IF days_since > 365
            THEN Step(<<"first_buy_in_year">>, <<Text("First buy in over a year", 0)>>)
            ELSE Nothing,
        Then(
            IF Len(purchases) >= 3 /\ span <= 90
            THEN Step(<<"consecutive_buying">>,
                      <<Text("3rd purchase in last 90 days - high conviction", 0)>>)
            ELSE Nothing,
            IF Len(sales) > Len(purchases)
            THEN Step(<<"seller_turned_buyer">>,
                      <<Text("Previously only sold, now buying", 0)>>)
            ELSE Nothing))

history_of(today, history) ==
    history_ladder(today, of_side(history, "P"), of_side(history, "S"))

history_tags(trade, rows, today, fails) ==
    IF ~Truthy(Get(trade, "insider_cik", NoneStr)) \/ ~Truthy(Get(trade, "ticker", NoneStr))
       \/ "history" \in fails \/ Get(trade, "transaction_type", "P") # "P"
    THEN Nothing
    ELSE history_of(today, get_insider_history(rows, Get(trade, "insider_cik", NoneStr),
                                               Get(trade, "ticker", NoneStr)))

\* lines 213-230: absolute size
size_tags(trade) ==
    LET total_value == Get(trade, "total_value", 0)
        tt == Get(trade, "transaction_type", "P")
    IN  IF tt = "P"
        THEN IF total_value = NoneInt THEN Raised
             ELSE IF total_value >= 25000
             THEN Step(<<"massive_buy">>,
                       <<Text("M+ purchase - huge conviction", total_value \div 1000)>>)
             ELSE IF total_value >= 10000
             THEN Step(<<"large_buy">>, <<Text("M purchase", total_value \div 100)>>)
             ELSE IF total_value >= 5000
             THEN Step(<<"significant_buy">>, <<Text("M purchase", total_value \div 100)>>)
             ELSE IF total_value >= 1000
             THEN Step(<<"million_plus_buy">>, <<>>)
             ELSE Nothing
        ELSE IF tt = "S"
        THEN IF total_value = NoneInt THEN Raised
             ELSE IF total_value >= 50000
             THEN Step(<<"massive_sale">>, <<Text("M+ sale", total_value \div 1000)>>)
             ELSE IF total_value >= 10000
             THEN Step(<<"large_sale">>, <<>>)
             ELSE Nothing
        ELSE Nothing

\* lines 235-255: size against the insider's own history
\* the insider's trades of one side that carry a value
valued(history, side) ==
    Pick(history, {i \in 1..Len(history) :
            /\ history[i].transaction_type = side
            /\ history[i].total_value # NoneInt
            /\ history[i].total_value # 0})

\* the values of a list of trades
values_of(trades) == [i \in 1..Len(trades) |-> trades[i].total_value]

\* lines 246-253: total_value against the mean of count values that add up to sum
ratio_ladder(total_value, count, sum) ==
    IF sum > 0
    THEN IF total_value * count >= 5 * sum
         THEN Step(<<"unusually_large">>,
                   <<Text("x their average transaction", (total_value * count) \div sum)>>)
         ELSE IF total_value * count >= 3 * sum
         THEN Step(<<"larger_than_usual">>, <<>>)
         ELSE Nothing
    ELSE Nothing

relative_to(total_value, past) ==
    IF Len(past) > 1
    THEN ratio_ladder(total_value, Len(past) - 1, SumSeq(values_of(Tail(past))))
    ELSE Nothing

relative_size_tags(trade, rows, fails) ==
    IF ~Truthy(Get(trade, "insider_cik", NoneStr)) THEN Nothing
    ELSE IF Get(trade, "total_value", 0) = NoneInt THEN Raised
    ELSE IF Get(trade, "total_value", 0) <= 0 \/ "relative" \in fails THEN Nothing
    ELSE relative_to(Get(trade, "total_value", 0),
                     valued(get_insider_history(rows, Get(trade, "insider_cik", NoneStr),
                                                NoneStr),
                            IF Get(trade, "transaction_type", "P") = "P" THEN "P" ELSE "S"))

\* lines 260-262: a director's purchase without a stronger role tag
director_tags(trade, so_far) ==
    IF Get(trade, "is_director", 0) # 0 /\ Get(trade, "transaction_type", "P") = "P"
       /\ "ceo_founder_buy" \notin Range(so_far) /\ "cfo_buy" \notin Range(so_far)
    THEN Step(<<"director_buy">>, <<>>)
    ELSE Nothing

\* every check of analyze in the order of the code
\* the checks before the director's one
checks_upto_size(trade, rows, today, fails) ==
    Then(read_fields(trade),
    Then(IF Get(trade, "transaction_type", "P") = "P"
         THEN Then(purchase_role_tags(trade), position_delta_tags(trade))
         ELSE Nothing,
    Then(IF Get(trade, "transaction_type", "P") = "S"
         THEN Then(sale_role_tags(trade), sale_severity_tags(trade))
         ELSE Nothing,
    Then(cluster_tags(trade, rows, today, fails),
    Then(history_tags(trade, rows, today, fails),
    Then(size_tags(trade),
         relative_size_tags(trade, rows, fails)))))))

with_director(trade, upto) == Then(upto, director_tags(trade, upto.a))

analyze_checks(trade, rows, today, fails) ==
    with_director(trade, checks_upto_size(trade, rows, today, fails))

\* lines 267-268
is_bullish(tt, anomalies) ==
    tt = "P" /\ \E i \in 1..Len(anomalies) :
                    InStr("buy", anomalies[i]) \/ InStr("purchase", anomalies[i])

is_bearish(tt, anomalies) ==
    tt = "S" /\ \E i \in 1..Len(anomalies) :
                    \/ InStr("sale", anomalies[i]) \/ InStr("sell", anomalies[i])
                    \/ InStr("exit", anomalies[i]) \/ InStr("reduction", anomalies[i])

\* TradeAnalyzer.analyze: the record it returns; the call raised when
\* analyze_checks(...).x, and then nothing is returned
\* lines 265-268: the fields analyze sets from the outcome c of the checks
annotated(trade, c) ==
    [anomalies |-> JsonDumps(c.a),
     anomaly_texts |-> c.t,
     is_bullish |-> is_bullish(Get(trade, "transaction_type", "P"), c.a),
     is_bearish |-> is_bearish(Get(trade, "transaction_type", "P"), c.a)] @@ trade

analyze(trade, rows, today, fails) ==
    annotated(trade, analyze_checks(trade, rows, today, fails))

analyze_raises(trade, rows, today, fails) == analyze_checks(trade, rows, today, fails).x

(***************************************************************************)
(* scrapers/sec_form4.py: the record _parse_form4_xml returns              *)
(***************************************************************************)
\* _determine_role
determine_role(is_director, is_officer, is_ten_percent, title) ==
    IF Truthy(title)
    THEN LET tu == Upper(title) IN
         IF InStr("CEO", tu) \/ InStr("CHIEF EXECUTIVE", tu) THEN "CEO"
         ELSE IF InStr("CFO", tu) \/ InStr("CHIEF FINANCIAL", tu) THEN "CFO"
         ELSE IF InStr("COO", tu) \/ InStr("CHIEF OPERATING", tu) THEN "COO"
         ELSE IF InStr("CTO", tu) \/ InStr("CHIEF TECHNOLOGY", tu) THEN "CTO"
         ELSE IF InStr("PRESIDENT", tu) THEN "President"
         ELSE IF InStr("VP", tu) \/ InStr("VICE PRESIDENT", tu) THEN "VP"
         ELSE IF InStr("DIRECTOR", tu) THEN "Director"
         ELSE IF InStr("GENERAL COUNSEL", tu) THEN "General Counsel"
         ELSE IF InStr("SECRETARY", tu) THEN "Secretary"
         ELSE IF Len(title) > 25 THEN SubSeq(title, 1, 25) \o "..." ELSE title
    ELSE IF is_officer THEN "Officer"
    ELSE IF is_director THEN "Director"
    ELSE IF is_ten_percent THEN "10% Owner"
    ELSE "Insider"

\* lines 333-353: the dict of one filing. who = <<is_director, is_officer,
\* is_ten_percent, officer_title>>; held = <<shares, shares_owned_after>>
Form4(accession_number, filing_date, ticker, insider_cik, who, transaction_type, held, total_value) ==
    [accession_number |-> accession_number,
     filing_date |-> filing_date,
     ticker |-> ticker,
     insider_cik |-> insider_cik,
     insider_role |-> determine_role(who[1], who[2], who[3], who[4]),
     is_director |-> IF who[1] THEN 1 ELSE 0,
     is_officer |-> IF who[2] THEN 1 ELSE 0,
     is_ten_percent_owner |-> IF who[3] THEN 1 ELSE 0,
     officer_title |-> who[4],
     transaction_type |-> transaction_type,
     shares |-> held[1],
     total_value |-> total_value,
     shares_owned_after |-> held[2]]

(***************************************************************************)
(* core/database.py: insert_insider_trade                                  *)
(***************************************************************************)
\* the columns INSERT writes, with the defaults of the table
insider_row(trade, today) ==
    [accession_number |-> trade.accession_number,
     filing_date |-> trade.filing_date,
     ticker |-> trade.ticker,
     insider_cik |-> trade.insider_cik,
     insider_role |-> trade.insider_role,
     is_director |-> Get(trade, "is_director", 0),
     is_officer |-> Get(trade, "is_officer", 0),
     is_ten_percent_owner |-> Get(trade, "is_ten_percent_owner", 0),
     officer_title |-> trade.officer_title,
     transaction_type |-> trade.transaction_type,
     shares |-> trade.shares,
     total_value |-> trade.total_value,
     shares_owned_after |-> trade.shares_owned_after,
     virality_score |-> Get(trade, "virality_score", 0),
     anomalies |-> Get(trade, "anomalies", "[]"),
     twitter_posted |-> 0,
     discord_posted |-> 0,
     created_at |-> today]

\* an INSERT that ignores nothing
is_duplicate_never(rows, trade) == FALSE

\* INSERT OR IGNORE: accession_number is UNIQUE
is_duplicate(rows, trade) ==
    \E i \in 1..Len(rows) : rows[i].accession_number = trade.accession_number

insert_insider_trade(rows, trade, today) ==
    IF is_duplicate(rows, trade) THEN rows ELSE Append(rows, insider_row(trade, today))

\* the id insert_insider_trade returns; 0 stands for None
inserted_id(rows, trade) ==
    IF is_duplicate(rows, trade) THEN 0 ELSE Len(rows) + 1

(***************************************************************************)
(* The tier ladders, applied to scores                                     *)
(***************************************************************************)
Off == [on |-> FALSE]

TierInit ==
    /\ tq \in [on : {TRUE}, s1 : 0..MAX_SCORE, s2 : 0..MAX_SCORE,
               t1 : {0}, t2 : {0}, congress : {0}, fund : {0}]
    /\ sq = Off /\ aq = Off /\ db = <<>> /\ now = 0 /\ run = Off /\ rl = Off /\ pub = Off /\ ms = Off

\* score_and_tier's call of get_tier, on both scores
GetTier ==
    /\ tq.on /\ tq.t1 = 0
    /\ tq' = [tq EXCEPT !.t1 = get_tier(tq.s1), !.t2 = get_tier(tq.s2)]
    /\ UNCHANGED <<sq, aq, db, now, run, rl, pub, ms>>

\* the tier scrape_congress_trades attaches to a trade of score s1
CongressTier ==
    /\ tq.on /\ tq.congress = 0
    /\ tq' = [tq EXCEPT !.congress = congress_tier(tq.s1)]
    /\ UNCHANGED <<sq, aq, db, now, run, rl, pub, ms>>

\* the tier scrape_hedge_fund_filings attaches to a filing of score s1
HedgeFundTier ==
    /\ tq.on /\ tq.fund = 0
    /\ tq' = [tq EXCEPT !.fund = hedge_fund_tier(tq.s1)]
    /\ UNCHANGED <<sq, aq, db, now, run, rl, pub, ms>>

TierNext == GetTier \/ CongressTier \/ HedgeFundTier

SpecTier == TierInit /\ [][TierNext]_vars

(***************************************************************************)
(* The three scorers, applied to records                                   *)
(***************************************************************************)
ScoreRoleTexts ==
    {<<"CEO", "Chief Executive Officer">>, <<"CFO", NoneStr>>,
     <<"Director", NoneStr>>, <<"Insider", NoneStr>>, <<"", "Vice Chairman">>}

ScoreFlags == {<<0, 0, 0>>, <<1, 0, 0>>, <<0, 0, 1>>}

ScoreValues == {0, 75, 1000, 10000, 50000, 100000, 1000000}

ScoreTickers == {NoneStr, "", "n/a", "None", "TSLA", "gme", "NFLX", "JPM", "XYZ"}

ScoreAnomalyLists ==
    {<<>>,
     <<"ceo_founder_buy", "massive_buy", "position_doubled", "cluster_buy">>,
     <<"ceo_founder_buy", "ceo_founder_buy", "ceo_founder_buy">>,
     <<"cfo_sale", "complete_exit", "cluster_sell", "ceo_large_sale">>,
     <<"director_buy", "not_a_tag">>}

InsiderInputs ==
    {[insider_role |-> rt[1], officer_title |-> rt[2],
      is_director |-> fl[1], is_officer |-> fl[2], is_ten_percent_owner |-> fl[3],
      total_value |-> v, ticker |-> tk, transaction_type |-> tt,
      anomalies |-> JsonDumps(an)] :
        rt \in ScoreRoleTexts, fl \in ScoreFlags, v \in ScoreValues,
        tk \in ScoreTickers, tt \in {"P", "S"}, an \in ScoreAnomalyLists}

CongressAnomalyLists ==
    {<<>>, <<"late_disclosure", "million_plus_trade", "purchase">>,
     <<"slow_disclosure", "meme_stock">>}

\* _parse_capitol_trade, lines 215-226: the days between the two dates, 0
\* when one of them is missing
days_to_disclose(tx_date, disclosure_date) ==
    IF tx_date # NoneInt /\ disclosure_date # NoneInt
    THEN disclosure_date - tx_date ELSE 0

\* <<day of the transaction, day of its disclosure>>
DisclosureDates ==
    {<<0, 0>>, <<0, 30>>, <<0, 31>>, <<0, 45>>, <<0, 46>>, <<NoneInt, 46>>, <<0, NoneInt>>}

CongressInputs ==
    {[is_high_profile |-> hp, politician_chamber |-> ch, amount_high |-> am,
      ticker |-> tk, transaction_date |-> d[1], disclosure_date |-> d[2],
      days_to_disclose |-> days_to_disclose(d[1], d[2]), transaction_type |-> tt,
      anomalies |-> JsonDumps(an)] :
        hp \in BOOLEAN, ch \in {"Senate", "House", ""},
        am \in {15000, 100000, 250000, 500000, 1000000, 5000000},
        tk \in {NoneStr, "", "TSLA", "JPM", "XYZ"}, d \in DisclosureDates,
        tt \in {"purchase", "sale", "exchange"}, an \in CongressAnomalyLists}

FilingInputs ==
    {[is_famous |-> f, total_value |-> v, position_count |-> pc,
      top_holdings |-> top, anomalies |-> JsonDumps(an)] :
        f \in BOOLEAN, v \in {0, 99, 100, 1000, 10000, 50000},
        pc \in {0, 49, 50, 100},
        top \in {<<>>, <<"TSLA">>, <<NoneStr, "AAPL", "GME">>,
                 <<"JPM", "JPM", "JPM", "JPM", "JPM", "GME">>},
        an \in {<<>>, <<"famous_fund", "meme_stock_holding">>, <<"mag7_holding">>}}

ScoreInit ==
    /\ sq \in [on : {TRUE}, kind : {"insider"}, rec : InsiderInputs,
               by : {"none"}, out : {Off}]
          \cup [on : {TRUE}, kind : {"congress"}, rec : CongressInputs,
                by : {"none"}, out : {Off}]
          \cup [on : {TRUE}, kind : {"13f"}, rec : FilingInputs,
                by : {"none"}, out : {Off}]
    /\ tq = Off /\ aq = Off /\ db = <<>> /\ now = 0 /\ run = Off /\ rl = Off /\ pub = Off /\ ms = Off

\* score_and_tier on an insider record
ScoreAndTier ==
    /\ sq.on /\ sq.kind = "insider" /\ sq.by = "none"
    /\ sq' = [sq EXCEPT !.by = "score_and_tier", !.out = score_and_tier(sq.rec)]
    /\ UNCHANGED <<tq, aq, db, now, run, rl, pub, ms>>

\* explain_score on the record score_and_tier returned
ExplainScore ==
    /\ sq.on /\ sq.kind = "insider" /\ sq.by = "score_and_tier"
    /\ sq' = [sq EXCEPT !.by = "explain_score",
                        !.out = [explanation |-> explain_score(sq.out)] @@ sq.out]
    /\ UNCHANGED <<tq, aq, db, now, run, rl, pub, ms>>

\* CongressScorer.score on a record as it is
CongressScore ==
    /\ sq.on /\ sq.kind = "congress" /\ sq.by = "none"
    /\ sq' = [sq EXCEPT !.by = "score",
                        !.out = [virality_score |-> congress_score(sq.rec)] @@ sq.rec]
    /\ UNCHANGED <<tq, aq, db, now, run, rl, pub, ms>>

\* one round of scrape_congress_trades' loop
ScrapeCongressTrade ==
    /\ sq.on /\ sq.kind = "congress" /\ sq.by = "none"
    /\ sq' = [sq EXCEPT !.by = "scrape", !.out = scrape_congress_trade(sq.rec)]
    /\ UNCHANGED <<tq, aq, db, now, run, rl, pub, ms>>

\* HedgeFundScorer.score on a filing as it is
HedgeFundScore ==
    /\ sq.on /\ sq.kind = "13f" /\ sq.by = "none"
    /\ sq' = [sq EXCEPT !.by = "score",
                        !.out = [virality_score |-> hedge_fund_score(sq.rec)] @@ sq.rec]
    /\ UNCHANGED <<tq, aq, db, now, run, rl, pub, ms>>

\* one round of scrape_hedge_fund_filings' loop
ScrapeHedgeFundFiling ==
    /\ sq.on /\ sq.kind = "13f" /\ sq.by = "none"
    /\ sq' = [sq EXCEPT !.by = "scrape", !.out = scrape_hedge_fund_filing(sq.rec)]
    /\ UNCHANGED <<tq, aq, db, now, run, rl, pub, ms>>

ScoreNext ==
    \/ ScoreAndTier \/ ExplainScore \/ CongressScore \/ ScrapeCongressTrade
    \/ HedgeFundScore \/ ScrapeHedgeFundFiling

SpecScore == ScoreInit /\ [][ScoreNext]_vars

(***************************************************************************)
(* main.py: the body of scrape_and_process' loop over the Form 4 trades    *)
(***************************************************************************)
\* analyze_trade, then score_and_tier: the record handed to the insert
enrich(trade, rows, today, fails) ==
    score_and_tier(analyze(trade, rows, today, fails))

\* lines 100-102, for a trade on which analyze does not raise
process_trade(rows, trade, today, fails) ==
    insert_insider_trade(rows, enrich(trade, rows, today, fails), today)

\* the table after a list of <<filing, day>> was scraped, each on its day
RECURSIVE Stored(_)
Stored(filings) ==
    IF Len(filings) = 0 THEN <<>>
    ELSE LET last == filings[Len(filings)] IN
         process_trade(Stored(SubSeq(filings, 1, Len(filings) - 1)),
                       last[1], last[2], {})

(***************************************************************************)
(* The analyzer, applied to one scraped record over a table filled by      *)
(* earlier runs; the clock moves between two calls                         *)
(***************************************************************************)
MaxTicks == 1

Lookups == {"recent", "history", "relative"}

\* the lookups that raise during one call: none, one of them, or all
FailSets == {{}, Lookups} \cup {{l} : l \in Lookups}

Plain == <<TRUE, FALSE, FALSE, NoneStr>>

\* an earlier filing of insider cik at TSLA, filed and scraped on `day`
Earlier(n, day, cik, tt, value) ==
    <<Form4(n, day, "TSLA", cik, Plain, tt, <<100, 1000>>, value), day>>

Histories ==
    {<<>>,
     \* three other insiders bought and sold yesterday
     <<Earlier("h1", -1, "c2", "P", 200), Earlier("h2", -1, "c3", "P", 200),
       Earlier("h3", -1, "c4", "P", 200), Earlier("h4", -1, "c2", "S", 200),
       Earlier("h5", -1, "c3", "S", 200), Earlier("h6", -1, "c4", "S", 200)>>,
     \* the insider bought a year ago and ten days ago
     <<Earlier("h1", -365, "c1", "P", 100), Earlier("h2", -10, "c1", "P", 200)>>,
     \* two buyers at the edge of the 14-day window, one inside
     <<Earlier("h1", -14, "c2", "P", 200), Earlier("h2", -14, "c3", "P", 200),
       Earlier("h3", -13, "c4", "P", 200)>>,
     \* the insider sold three times
     <<Earlier("h1", -30, "c1", "S", 100), Earlier("h2", -20, "c1", "S", 100),
       Earlier("h3", -10, "c1", "S", 100)>>}

Profiles ==
    {<<FALSE, TRUE, TRUE, "Chairman and CEO">>,
     <<FALSE, TRUE, FALSE, "Chief Financial Officer">>,
     <<TRUE, FALSE, FALSE, NoneStr>>}

Holdings == {<<100, NoneInt>>, <<100, 0>>, <<100, 100>>, <<100, 150>>, <<300, 100>>}

\* chief financial officers, with the other boxes of the form ticked or not
CfoProfiles ==
    {<<FALSE, TRUE, FALSE, "Chief Financial Officer">>,
     <<FALSE, TRUE, TRUE, "CFO">>,
     <<TRUE, TRUE, FALSE, "CFO">>}

\* sales of $10,000,000 by a chief financial officer
CfoSales ==
    {Form4("a1", 0, tk, "c1", who, "S", held, 10000) :
        tk \in {"TSLA", "JPM", "XYZ"}, who \in CfoProfiles, held \in Holdings}

\* purchases of $500,000 by an officer who is neither a director nor a chief
\* officer
Vp == <<FALSE, TRUE, FALSE, "VP Sales">>

VpPurchases ==
    {Form4("a1", 0, tk, "c1", Vp, "P", held, 500) :
        tk \in {"TSLA", NoneStr}, held \in Holdings}

AnalyzeInputs ==
    CfoSales \cup VpPurchases \cup
    {Form4("a1", 0, tk, "c1", who, tt, held, v) :
        tk \in {"TSLA", NoneStr}, who \in Profiles, tt \in {"P", "S"},
        held \in Holdings, v \in {500, 60000}}
    \cup {Form4("a1", 0, "TSLA", NoneStr, Plain, tt, held, 10) :
            tt \in {"P", "S", "A"}, held \in {<<100, NoneInt>>, <<100, 150>>}}

AnalyzeInit ==
    /\ \E trade \in AnalyzeInputs, h \in Histories :
          /\ aq = [on |-> TRUE, trade |-> trade, phase |-> "scraped", fails |-> {},
                   first |-> Off, at1 |-> 0, second |-> Off, at2 |-> 0, again |-> "no"]
          /\ db = Stored(h)
    /\ now = 0
    /\ tq = Off /\ sq = Off /\ run = Off /\ rl = Off /\ pub = Off /\ ms = Off

\* analyze_trade(trade) in scrape_and_process: an exception leaves the loop
AnalyzeTrade ==
    /\ aq.on /\ aq.phase = "scraped"
    /\ \E fails \in FailSets :
          IF analyze_raises(aq.trade, db, now, fails)
          THEN aq' = [aq EXCEPT !.phase = "raised", !.fails = fails, !.at1 = now]
          ELSE aq' = [aq EXCEPT !.phase = "analyzed", !.fails = fails, !.at1 = now,
                                !.first = analyze(aq.trade, db, now, fails)]
    /\ UNCHANGED <<tq, sq, db, now, run, rl, pub, ms>>

\* score_and_tier(trade) on the annotated record
ScoreAnalyzed ==
    /\ aq.on /\ aq.phase = "analyzed" /\ aq.again = "no"
    /\ aq' = [aq EXCEPT !.phase = "scored", !.first = score_and_tier(aq.first)]
    /\ UNCHANGED <<tq, sq, db, now, run, rl, pub, ms>>

\* a second call of analyze on the scraped record, the same lookups failing
AnalyzeAgain ==
    /\ aq.on /\ aq.phase = "analyzed" /\ aq.again = "no"
    /\ aq' = [aq EXCEPT !.again = "same record", !.at2 = now,
                        !.second = analyze(aq.trade, db, now, aq.fails)]
    /\ UNCHANGED <<tq, sq, db, now, run, rl, pub, ms>>

\* a second call of analyze on the record the first call annotated
Reanalyze ==
    /\ aq.on /\ aq.phase = "analyzed" /\ aq.again = "no"
    /\ aq' = [aq EXCEPT !.again = "annotated record", !.at2 = now,
                        !.second = analyze(aq.first, db, now, aq.fails)]
    /\ UNCHANGED <<tq, sq, db, now, run, rl, pub, ms>>

\* a day passes
Tick ==
    /\ aq.on /\ now < MaxTicks /\ aq.phase \in {"scraped", "analyzed"} /\ aq.again = "no"
    /\ now' = now + 1
    /\ UNCHANGED <<tq, sq, aq, db, run, rl, pub, ms>>

AnalyzeNext == AnalyzeTrade \/ ScoreAnalyzed \/ AnalyzeAgain \/ Reanalyze \/ Tick

SpecAnalyze == AnalyzeInit /\ [][AnalyzeNext]_vars

(***************************************************************************)
(* main.py: scrape_and_process over the SEC feed, run after run.           *)
(* run.feed is the list of Form 4 filings the feed holds, oldest first;    *)
(* the feed serves the newest MAX_FORM4_FILINGS of them, newest first.     *)
(***************************************************************************)
MaxFilings == 3

MaxDay == 1

MAX_FORM4_FILINGS == 100

Insiders == <<"c1", "c2", "c3", "c4", "c5">>

\* insiders are numbered in the order of their first filing
KnownInsiders(feed) == {feed[i].insider_cik : i \in 1..Len(feed)}

NextInsiders(feed) ==
    {Insiders[i] : i \in 1..Min2(Cardinality(KnownInsiders(feed)) + 1, Len(Insiders))}

RECURSIVE Reverse(_)
Reverse(seq) == IF Len(seq) = 0 THEN <<>> ELSE Append(Reverse(Tail(seq)), Head(seq))

\* scrape_recent_filings: entries[:max_filings] of the feed
scrape_recent_filings(feed, max_filings) ==
    LET newest_first == Reverse(feed) IN
    SubSeq(newest_first, 1, Min2(Len(newest_first), max_filings))

\* the accession numbers of the filings
Accessions == {"f" \o ToString(i) : i \in 1..MaxFilings}

\* what the calls of insert_insider_trade for one accession number returned
\* (0 stands for None) and how often the filing was among the new items
NoCalls == [calls |-> 0, first |-> 0, later |-> {}, news |-> 0]

\* one more call, which returned trade_id
Called(entry, trade_id) ==
    IF entry.calls = 0
    THEN [entry EXCEPT !.calls = 1, !.first = trade_id,
                       !.news = IF trade_id # 0 THEN 1 ELSE 0]
    ELSE [entry EXCEPT !.calls = 2, !.later = @ \cup {trade_id},
                       !.news = IF trade_id # 0 THEN Min2(@ + 1, 2) ELSE @]

Init ==
    /\ db = <<>>
    /\ now = 0
    /\ run = [on |-> TRUE, feed |-> <<>>, phase |-> "idle", trades |-> <<>>,
              insider_trades |-> <<>>, ledger |-> [a \in Accessions |-> NoCalls]]
    /\ tq = Off /\ sq = Off /\ aq = Off /\ rl = Off /\ pub = Off /\ ms = Off

\* what a filing reports: the transaction code and <<shares, shares owned
\* after the transaction>>, the latter missing in some filings
Reported == {<<"P", <<100, 1000>>>>, <<"S", <<100, 1000>>>>, <<"P", <<100, NoneInt>>>>}

\* an insider files a Form 4 for a transaction in TSLA; the SEC publishes it.
\* A run reads the feed once, when it starts, so filings made during a run
\* are those made right after it.
File ==
    /\ run.on /\ run.phase # "scraping" /\ Len(run.feed) < MaxFilings
    /\ \E cik \in NextInsiders(run.feed), r \in Reported :
          run' = [run EXCEPT !.feed = Append(@,
                    Form4("f" \o ToString(Len(run.feed) + 1), now, "TSLA", cik,
                          Plain, r[1], r[2], 200))]
    /\ UNCHANGED <<tq, sq, aq, db, now, rl, pub, ms>>

\* scrape_and_process, lines 94-97: the trades of this run
StartScrape ==
    /\ run.on /\ run.phase = "idle"
    /\ run' = [run EXCEPT !.phase = "scraping", !.insider_trades = <<>>,
                          !.trades = scrape_recent_filings(run.feed, MAX_FORM4_FILINGS)]
    /\ UNCHANGED <<tq, sq, aq, db, now, rl, pub, ms>>

\* lines 99-107: one round of the loop; an exception of analyze_trade leaves
\* scrape_and_process and the scheduler's loop
ProcessTrade ==
    /\ run.on /\ run.phase = "scraping" /\ Len(run.trades) > 0
    /\ LET trade == Head(run.trades) IN
       IF analyze_raises(trade, db, now, {})
       THEN /\ run' = [run EXCEPT !.phase = "aborted"]
            /\ UNCHANGED db
       ELSE LET scored == enrich(trade, db, now, {})
                trade_id == inserted_id(db, scored)
            IN  /\ db' = insert_insider_trade(db, scored, now)
                /\ run' = [run EXCEPT
                      !.trades = Tail(@),
                      !.ledger[trade.accession_number] = Called(@, trade_id),
                      !.insider_trades =
                          IF trade_id # 0
                          THEN Append(@, [id |-> trade_id, trade_type |-> "insider"]
                                         @@ scored)
                          ELSE @]
    /\ UNCHANGED <<tq, sq, aq, now, rl, pub, ms>>

\* the loop is over: scrape_and_process returns its results
EndScrape ==
    /\ run.on /\ run.phase = "scraping" /\ Len(run.trades) = 0
    /\ run' = [run EXCEPT !.phase = "idle"]
    /\ UNCHANGED <<tq, sq, aq, db, now, rl, pub, ms>>

\* the process is started again after an uncaught exception ended it
Restart ==
    /\ run.on /\ run.phase = "aborted"
    /\ run' = [run EXCEPT !.phase = "idle", !.trades = <<>>, !.insider_trades = <<>>]
    /\ UNCHANGED <<tq, sq, aq, db, now, rl, pub, ms>>

\* midnight passes
NextDay ==
    /\ run.on /\ now < MaxDay
    /\ now' = now + 1
    /\ UNCHANGED <<tq, sq, aq, db, run, rl, pub, ms>>

Next == File \/ StartScrape \/ ProcessTrade \/ EndScrape \/ Restart \/ NextDay

Spec == Init /\ [][Next]_vars


(***************************************************************************)
(* utils/rate_limiter.py: one RateLimiter and the threads that call        *)
(* acquire on it. The clock counts seconds and never runs backwards; a     *)
(* thread takes any number of steps within a second.                       *)
(***************************************************************************)
MaxClock == 4

\* RateLimiter(max_requests = 2, time_window_seconds = 2)
max_requests == 2
time_window == 2

Threads == {"t1", "t2"}

\* a with-block that every thread may enter at any time
lock_free_always(lock) == TRUE

\* with self.lock: a thread enters when no thread is inside
lock_free(lock) == lock = "none"

\* while self.requests and self.requests[0] < cutoff: self.requests.popleft()
RECURSIVE popleft_old(_, _)
popleft_old(requests, cutoff) ==
    IF Len(requests) > 0 /\ Head(requests) < cutoff
    THEN popleft_old(Tail(requests), cutoff) ELSE requests

\* a thread outside acquire; result is what its last call returned
Outside == [pc |-> "idle", block |-> FALSE, read |-> 0, result |-> "none", appended |-> 0]

LimiterInit ==
    /\ rl = [on |-> TRUE, clock |-> 0, lock |-> "none", requests |-> <<>>,
             th |-> [t \in Threads |-> Outside],
             grants |-> [c \in 0..MaxClock |-> 0]]
    /\ tq = Off /\ sq = Off /\ aq = Off /\ db = <<>> /\ now = 0 /\ run = Off
    /\ pub = Off /\ ms = Off

\* acquire(block = ...), without a timeout
Acquire(t) ==
    /\ rl.on /\ rl.th[t].pc = "idle"
    /\ \E block \in BOOLEAN :
          rl' = [rl EXCEPT !.th[t] = [Outside EXCEPT !.pc = "lock", !.block = block]]
    /\ UNCHANGED <<tq, sq, aq, db, now, run, pub, ms>>

\* with self.lock: now = datetime.now()
EnterLock(t) ==
    /\ rl.on /\ rl.th[t].pc = "lock" /\ lock_free(rl.lock)
    /\ rl' = [rl EXCEPT !.lock = t, !.th[t].pc = "prune", !.th[t].read = rl.clock]
    /\ UNCHANGED <<tq, sq, aq, db, now, run, pub, ms>>

\* lines 47-51: requests older than the window are dropped
Prune(t) ==
    /\ rl.on /\ rl.th[t].pc = "prune"
    /\ rl' = [rl EXCEPT !.requests = popleft_old(@, rl.th[t].read - time_window),
                        !.th[t].pc = "check"]
    /\ UNCHANGED <<tq, sq, aq, db, now, run, pub, ms>>

\* line 54: if len(self.requests) < self.max_requests
CheckRoom(t) ==
    /\ rl.on /\ rl.th[t].pc = "check"
    /\ rl' = [rl EXCEPT !.th[t].pc =
                  IF Len(rl.requests) < max_requests THEN "append" ELSE "refuse"]
    /\ UNCHANGED <<tq, sq, aq, db, now, run, pub, ms>>

\* lines 55-56: self.requests.append(now); return True
Grant(t) ==
    /\ rl.on /\ rl.th[t].pc = "append"
    /\ rl' = [rl EXCEPT !.requests = Append(@, rl.th[t].read),
                        !.grants[rl.th[t].read] = @ + 1,
                        !.lock = "none",
                        !.th[t] = [@ EXCEPT !.pc = "idle", !.result = "true",
                                            !.appended = @ + 1, !.read = 0]]
    /\ UNCHANGED <<tq, sq, aq, db, now, run, pub, ms>>

\* lines 58-59: the with-block is left; if not block: return False
Refuse(t) ==
    /\ rl.on /\ rl.th[t].pc = "refuse"
    /\ rl' = [rl EXCEPT !.lock = "none",
                        !.th[t] = IF rl.th[t].block
                                  THEN [@ EXCEPT !.pc = "sleep", !.read = 0]
                                  ELSE [@ EXCEPT !.pc = "idle", !.result = "false",
                                                 !.read = 0]]
    /\ UNCHANGED <<tq, sq, aq, db, now, run, pub, ms>>

\* line 68: time.sleep(0.1), then the loop starts again
Wake(t) ==
    /\ rl.on /\ rl.th[t].pc = "sleep"
    /\ rl' = [rl EXCEPT !.th[t].pc = "lock"]
    /\ UNCHANGED <<tq, sq, aq, db, now, run, pub, ms>>

\* a second passes
ClockTick ==
    /\ rl.on /\ rl.clock < MaxClock
    /\ rl' = [rl EXCEPT !.clock = @ + 1]
    /\ UNCHANGED <<tq, sq, aq, db, now, run, pub, ms>>

LimiterNext ==
    \/ \E t \in Threads : Acquire(t)
    \/ \E t \in Threads : EnterLock(t)
    \/ \E t \in Threads : Prune(t)
    \/ \E t \in Threads : CheckRoom(t)
    \/ \E t \in Threads : Grant(t)
    \/ \E t \in Threads : Refuse(t)
    \/ \E t \in Threads : Wake(t)
    \/ ClockTick

SpecLimiter == LimiterInit /\ [][LimiterNext]_vars

(***************************************************************************)
(* main.py: run_full_pipeline - scrape_and_process, post_all_alerts, then  *)
(* post_alerts - with the two Twitter publishers (bots/twitter_browser.py, *)
(* bots/twitter_bot.py) and the webhook poster of bots/discord_bot.py.     *)
(* Time is counted in periods of 30 seconds, the sleep after an alert. Of  *)
(* a bot's clock the model keeps what the rate limits compare: `last` is   *)
(* the number of periods since the last post, counted up to the minimum    *)
(* delay (NoneInt: no post yet); `hour` tells whether the bot's hour has   *)
(* not begun ("none"), is running or is over; `posts` is posts_this_hour.  *)
(* The browser is logged in, the API client has its credentials and        *)
(* POST_TO_TWITTER is on: a publisher accepts what its limits allow.       *)
(***************************************************************************)
SLEEP_SECONDS == 30

MIN_DELAY_BETWEEN_POSTS == 180

BROWSER_MAX_POSTS_PER_HOUR == 8

MAX_POSTS_PER_HOUR == 15

\* the minimum delay in periods
MinDelay == MIN_DELAY_BETWEEN_POSTS \div SLEEP_SECONDS

\* TwitterBrowserBot._can_post: the verdict and the bot after the call
_can_post(bot) ==
    IF bot.last # NoneInt /\ bot.last < MinDelay
    THEN [ok |-> FALSE, bot |-> bot]
    ELSE IF bot.hour = "running"
         THEN [ok |-> bot.posts < BROWSER_MAX_POSTS_PER_HOUR, bot |-> bot]
         ELSE [ok |-> TRUE, bot |-> [bot EXCEPT !.hour = "running", !.posts = 0]]

\* what a publisher call leaves: the id it returns, whether a tweet went
\* out, the bot and the table
Outcome(id, sent, bot, rows) == [id |-> id, sent |-> sent, bot |-> bot, rows |-> rows]

\* TwitterBrowserBot.post_tweet, given the verdict of _can_post
post_tweet_if(can, bot, rows, dry_run) ==
    IF dry_run THEN Outcome("dry_run_id", FALSE, bot, rows)
    ELSE IF ~can.ok THEN Outcome(NoneStr, FALSE, can.bot, rows)
    ELSE Outcome("browser_post",
                 TRUE, [can.bot EXCEPT !.last = 0, !.posts = @ + 1], rows)

\* TwitterBrowserBot.post_tweet; post_trade formats the trade and calls it
post_tweet(bot, rows, dry_run) == post_tweet_if(_can_post(bot), bot, rows, dry_run)

\* TwitterBot._check_rate_limit: the bot after the hourly reset
_check_rate_limit(bot) ==
    IF bot.hour = "over" THEN [bot EXCEPT !.hour = "running", !.posts = 0] ELSE bot

\* mark_trade_posted(trade_id, 'twitter', tweet_id)
mark_trade_posted(rows, trade_id) ==
    [i \in 1..Len(rows) |->
        IF i = trade_id THEN [rows[i] EXCEPT !.twitter_posted = 1] ELSE rows[i]]

\* TwitterBot.post_trade and post_text, given the bot after _check_rate_limit;
\* trade_id is trade.get('id'), 0 where there is none (post_text)
api_post_if(checked, rows, trade_id, dry_run) ==
    IF checked.posts >= MAX_POSTS_PER_HOUR THEN Outcome(NoneStr, FALSE, checked, rows)
    ELSE IF dry_run THEN Outcome("dry_run_id", FALSE, checked, rows)
    ELSE Outcome("tweet_id", TRUE, [checked EXCEPT !.posts = @ + 1],
                 IF trade_id # 0 THEN mark_trade_posted(rows, trade_id) ELSE rows)

api_post(bot, rows, trade_id, dry_run) ==
    api_post_if(_check_rate_limit(bot), rows, trade_id, dry_run)

\* post_to_twitter
post_to_twitter(mode, bot, rows, trade_id, dry_run) ==
    IF mode = "browser" THEN post_tweet(bot, rows, dry_run)
    ELSE api_post(bot, rows, trade_id, dry_run)

\* time.sleep(30): one more period since the last post
sleep(bot) ==
    IF bot.last = NoneInt THEN bot ELSE [bot EXCEPT !.last = Min2(@ + 1, MinDelay)]

\* get_unposted_trades' WHERE clause: the ids of the rows it keeps
unposted_ids(rows) ==
    {i \in 1..Len(rows) : /\ rows[i].twitter_posted = 0
                          /\ rows[i].transaction_type \in {"P", "S"}
                          /\ rows[i].total_value >= 50}

\* ORDER BY virality_score DESC, filing_date DESC; rows that tie come in
\* the order of their ids
comes_before(rows, i, j) ==
    \/ rows[i].virality_score > rows[j].virality_score
    \/ /\ rows[i].virality_score = rows[j].virality_score
       /\ \/ rows[i].filing_date > rows[j].filing_date
          \/ rows[i].filing_date = rows[j].filing_date /\ i < j

\* the row of the table as a dict: SELECT * gives the columns and the id
row_dict(rows, i) == [id |-> i] @@ rows[i]

ordered_rows(rows, ids, limit) ==
    [k \in 1..Min2(Cardinality(ids), limit) |->
        row_dict(rows, CHOOSE i \in ids :
                          Cardinality({j \in ids : comes_before(rows, j, i)}) = k - 1)]

get_unposted_trades(rows, limit) == ordered_rows(rows, unposted_ids(rows), limit)

\* post_alerts' limit
ALERT_LIMIT == 20

\* a reading that takes the tier of a stored row from its score
tier_of_score(trade) == Get(trade, "tier", get_tier(trade.virality_score))

\* tier = trade.get('tier', 4) of post_all_alerts and post_alerts
tier_of(trade) == Get(trade, "tier", 4)

\* "if tier <= 2", the gate of the insider and the congress alerts
alert_gate_with_tier3(tier) == tier <= 3

alert_gate(tier) == tier <= 2

\* the gate of the 13F alerts
filing_gate(filing) ==
    Get(filing, "is_famous", FALSE) \/ Get(filing, "virality_score", 0) >= 60

\* the number of Form 4 filings the feed comes to hold
MaxAlerts == 2

AlertAccessions == {"f" \o ToString(i) : i \in 1..MaxAlerts}

Ceo == <<FALSE, TRUE, FALSE, "CEO">>

\* what is filed, as <<who, total_value, <<shares, shares owned after>>>>: a
\* CEO's purchase of $10M, a director's of $60K, and one whose filing
\* leaves out the shares owned after it
Filed == {<<Ceo, 10000, <<100, 1000>>>>, <<Plain, 60, <<100, 1000>>>>,
          <<Plain, 60, <<100, NoneInt>>>>}

\* the trades the congress site serves, run after run
CongressSite ==
    <<[is_high_profile |-> TRUE, politician_chamber |-> "Senate",
       amount_high |-> 5000000, ticker |-> "TSLA", transaction_date |-> 0,
       disclosure_date |-> 46, days_to_disclose |-> days_to_disclose(0, 46),
       transaction_type |-> "purchase"],
      [is_high_profile |-> FALSE, politician_chamber |-> "Senate",
       amount_high |-> 250000, ticker |-> "XYZ", transaction_date |-> 0,
       disclosure_date |-> 0, days_to_disclose |-> days_to_disclose(0, 0),
       transaction_type |-> "sale"]>>

\* the 13F filings EDGAR serves: a famous fund with nothing else to score,
\* and an unknown one with all the rest: $50B, 100 positions, a meme stock
FundSite ==
    <<[is_famous |-> TRUE, total_value |-> 0, position_count |-> 0,
       top_holdings |-> <<>>],
      [is_famous |-> FALSE, total_value |-> 50000, position_count |-> 100,
       top_holdings |-> <<"GME">>]>>

\* scrape_congress_trades and scrape_hedge_fund_filings
scrape_congress_trades(site) == [i \in 1..Len(site) |-> scrape_congress_trade(site[i])]

scrape_hedge_fund_filings(site) == [i \in 1..Len(site) |-> scrape_hedge_fund_filing(site[i])]

\* scrape_and_process, lines 99-107: one round of the loop over the Form 4
\* trades, given the scored trade and the id its insert returns
store_scored(got, scored, trade_id, today) ==
    [rows |-> insert_insider_trade(got.rows, scored, today),
     news |-> IF trade_id # 0
              THEN Append(got.news, [id |-> trade_id, trade_type |-> "insider"] @@ scored)
              ELSE got.news,
     raised |-> FALSE]

store_enriched(got, scored, today) ==
    store_scored(got, scored, inserted_id(got.rows, scored), today)

\* the element of a singleton: the value of an expression, computed once
The(singleton) == CHOOSE v \in singleton : TRUE

\* lines 99-101: trade = analyze_trade(trade), trade = score_and_tier(trade)
\* and the insert
process_and_store(got, trade, today) ==
    The({store_enriched(got, scored, today) :
            scored \in {score_and_tier(analyzed) :
                           analyzed \in {analyze(trade, got.rows, today, {})}}})

\* the loop: it ends where analyze_trade raises
RECURSIVE scrape_insiders(_, _, _)
scrape_insiders(trades, got, today) ==
    IF Len(trades) = 0 THEN got
    ELSE IF analyze_raises(Head(trades), got.rows, today, {})
         THEN [got EXCEPT !.raised = TRUE]
         ELSE scrape_insiders(Tail(trades), process_and_store(got, Head(trades), today),
                              today)

NoResults == [insider_trades |-> <<>>, congress_trades |-> <<>>, hedge_fund_filings |-> <<>>]

\* what went to the publishers: how often each Form 4 was tweeted (counted
\* up to 2) and, of the last run, the <<kind, tier, virality_score>> of every
\* record handed to a publisher and the ids of the rows post_alerts handed
\* to Twitter and Discord
NoLog == [tweets |-> [a \in AlertAccessions |-> 0], handed |-> {}, pending |-> {}]

\* the bots a process starts with: TwitterBrowserBot loads its post history
\* (here none, or 7 posts in an hour that still runs), TwitterBot starts its
\* hour
Bots(mode) ==
    IF mode = "browser"
    THEN {[last |-> NoneInt, hour |-> "none", posts |-> 0],
          [last |-> MinDelay, hour |-> "running", posts |-> BROWSER_MAX_POSTS_PER_HOUR - 1]}
    ELSE {[last |-> NoneInt, hour |-> "running", posts |-> 0]}

\* the bot of the process started after an exception ended the last one:
\* the browser bot finds its history, the API bot starts its hour
restarted(mode, bot) ==
    IF mode = "browser" THEN bot ELSE [bot EXCEPT !.hour = "running", !.posts = 0]

PublishInit ==
    /\ db = <<>>
    /\ now = 0
    /\ \E mode \in {"browser", "api"}, dry_run \in BOOLEAN :
          \E bot \in Bots(mode) :
             pub = [on |-> TRUE, mode |-> mode, dry_run |-> dry_run, bot |-> bot,
                    phase |-> "idle", feed |-> <<>>, results |-> NoResults,
                    todo |-> <<>>, unposted |-> <<>>, log |-> NoLog]
    /\ tq = Off /\ sq = Off /\ aq = Off /\ rl = Off /\ run = Off /\ ms = Off

\* an insider files a Form 4 for a transaction in TSLA; the SEC publishes it
PublishFile ==
    /\ pub.on /\ pub.phase = "idle" /\ Len(pub.feed) < MaxAlerts
    /\ \E f \in Filed :
          pub' = [pub EXCEPT !.feed = Append(@,
                    Form4("f" \o ToString(Len(pub.feed) + 1), now, "TSLA",
                          Insiders[Len(pub.feed) + 1], f[1], "P", f[3], f[2]))]
    /\ UNCHANGED <<tq, sq, aq, db, now, run, rl, ms>>

\* run_full_pipeline, line 254: scrape_and_process as a whole. An exception
\* of analyze_trade ends the run and the process with the rows stored so far.
ScrapeAndProcess ==
    /\ pub.on /\ pub.phase = "idle"
    /\ \E got \in {scrape_insiders(scrape_recent_filings(pub.feed, MAX_FORM4_FILINGS),
                                     [rows |-> db, news |-> <<>>, raised |-> FALSE], now)} :
           /\ db' = got.rows
           /\ pub' = IF got.raised THEN [pub EXCEPT !.bot = restarted(pub.mode, @)]
                     ELSE [pub EXCEPT
                             !.phase = "insider",
                             !.todo = got.news,
                             !.unposted = <<>>,
                             !.log.handed = {},
                             !.log.pending = {},
                             !.results =
                                 [insider_trades |-> got.news,
                                  congress_trades |-> scrape_congress_trades(CongressSite),
                                  hedge_fund_filings |-> scrape_hedge_fund_filings(FundSite)]]
    /\ UNCHANGED <<tq, sq, aq, now, run, rl, ms>>

\* the log after a record was handed to Twitter
handed_over(log, kind, trade) ==
    [log EXCEPT !.handed = @ \cup {<<kind, tier_of(trade), trade.virality_score>>}]

\* the log after a Form 4 trade went to Twitter, with the outcome, and then
\* to Discord (post_to_discord_sync)
trade_logged(log, trade, out, by_post_alerts) ==
    [handed_over(log, "insider", trade) EXCEPT
        !.tweets[trade.accession_number] = IF out.sent THEN Min2(@ + 1, 2) ELSE @,
        !.pending = IF by_post_alerts THEN @ \cup {trade.id} ELSE @]

\* one round of a loop over Form 4 trades (post_all_alerts, lines 176-183;
\* post_alerts, lines 218-240), given what post_to_twitter returns
trade_round(trade, out, by_post_alerts) ==
    /\ db' = out.rows
    /\ pub' = [pub EXCEPT !.todo = Tail(@), !.bot = sleep(out.bot),
                          !.log = trade_logged(@, trade, out, by_post_alerts)]

skip_round ==
    /\ pub' = [pub EXCEPT !.todo = Tail(@)]
    /\ UNCHANGED db

\* post_all_alerts, lines 176-183
PostInsiderAlert ==
    /\ pub.on /\ pub.phase = "insider" /\ Len(pub.todo) > 0
    /\ IF alert_gate(tier_of(Head(pub.todo)))
       THEN trade_round(Head(pub.todo),
                        post_to_twitter(pub.mode, pub.bot, db, Head(pub.todo).id, pub.dry_run),
                        FALSE)
       ELSE skip_round
    /\ UNCHANGED <<tq, sq, aq, now, run, rl, ms>>

\* one round of a loop over texts, given what post_to_twitter returns
text_round(kind, item, out) ==
    /\ pub' = [pub EXCEPT !.todo = Tail(@), !.bot = sleep(out.bot),
                          !.log = handed_over(@, kind, item)]
    /\ UNCHANGED db

\* post_all_alerts, lines 186-193
PostCongressAlert ==
    /\ pub.on /\ pub.phase = "congress" /\ Len(pub.todo) > 0
    /\ IF alert_gate(tier_of(Head(pub.todo)))
       THEN text_round("congress", Head(pub.todo),
                       post_to_twitter(pub.mode, pub.bot, db, 0, pub.dry_run))
       ELSE skip_round
    /\ UNCHANGED <<tq, sq, aq, now, run, rl, ms>>

\* post_all_alerts, lines 196-202
PostFilingAlert ==
    /\ pub.on /\ pub.phase = "funds" /\ Len(pub.todo) > 0
    /\ IF filing_gate(Head(pub.todo))
       THEN text_round("13f", Head(pub.todo),
                       post_to_twitter(pub.mode, pub.bot, db, 0, pub.dry_run))
       ELSE skip_round
    /\ UNCHANGED <<tq, sq, aq, now, run, rl, ms>>

\* post_all_alerts goes on to its next loop
NextLoop ==
    /\ pub.on /\ pub.phase \in {"insider", "congress"} /\ Len(pub.todo) = 0
    /\ pub' = IF pub.phase = "insider"
              THEN [pub EXCEPT !.phase = "congress", !.todo = pub.results.congress_trades]
              ELSE [pub EXCEPT !.phase = "funds", !.todo = pub.results.hedge_fund_filings]
    /\ UNCHANGED <<tq, sq, aq, db, now, run, rl, ms>>

\* post_all_alerts returns; post_alerts, line 212, reads the unposted trades
StartPostAlerts ==
    /\ pub.on /\ pub.phase = "funds" /\ Len(pub.todo) = 0
    /\ pub' = [pub EXCEPT !.phase = "alerts", !.results = NoResults,
                          !.todo = get_unposted_trades(db, ALERT_LIMIT),
                          !.unposted = get_unposted_trades(db, ALERT_LIMIT)]
    /\ UNCHANGED <<tq, sq, aq, db, now, run, rl, ms>>

\* post_alerts, lines 218-240
PostPendingAlert ==
    /\ pub.on /\ pub.phase = "alerts" /\ Len(pub.todo) > 0
    /\ IF alert_gate(tier_of(Head(pub.todo)))
       THEN trade_round(Head(pub.todo),
                        post_to_twitter(pub.mode, pub.bot, db, Head(pub.todo).id, pub.dry_run),
                        TRUE)
       ELSE skip_round
    /\ UNCHANGED <<tq, sq, aq, now, run, rl, ms>>

\* post_alerts returns and with it run_full_pipeline
EndRun ==
    /\ pub.on /\ pub.phase = "alerts" /\ Len(pub.todo) = 0
    /\ pub' = [pub EXCEPT !.phase = "idle"]
    /\ UNCHANGED <<tq, sq, aq, db, now, run, rl, ms>>

\* the interval to the next run passes: SCRAPE_INTERVAL_MINUTES, longer than
\* the minimum delay
PassTime ==
    /\ pub.on /\ pub.phase = "idle" /\ pub.bot.last \notin {NoneInt, MinDelay}
    /\ pub' = [pub EXCEPT !.bot.last = MinDelay]
    /\ UNCHANGED <<tq, sq, aq, db, now, run, rl, ms>>

\* the bot's hour comes to its end between two runs
HourPasses ==
    /\ pub.on /\ pub.phase = "idle" /\ pub.bot.hour = "running"
    /\ pub' = [pub EXCEPT !.bot.hour = "over",
                          !.bot.last = IF @ = NoneInt THEN @ ELSE MinDelay]
    /\ UNCHANGED <<tq, sq, aq, db, now, run, rl, ms>>

PublishRun ==
    \/ ScrapeAndProcess \/ PostInsiderAlert \/ NextLoop \/ PostCongressAlert
    \/ PostFilingAlert \/ StartPostAlerts \/ PostPendingAlert \/ EndRun

PublishNext == PublishFile \/ PublishRun \/ PassTime \/ HourPasses

SpecPublish == PublishInit /\ [][PublishNext]_vars

\* run_full_pipeline keeps being run to its end, and between the runs the
\* scheduler lets time go by
SpecPublishFair ==
    /\ SpecPublish
    /\ []<><<EndRun>>_vars
    /\ SF_vars(PassTime) /\ SF_vars(HourPasses)


(***************************************************************************)
(* utils/rate_limiter.py: a MultiRateLimiter and the one thread that calls *)
(* it. ms.limiters is the dict in insertion order; each RateLimiter has    *)
(* its own threading.Lock, which is not reentrant: a thread that enters    *)
(* `with lock` while it is inside `with lock` itself waits like any other. *)
(***************************************************************************)
MaxStatusClock == 2

LimiterNames == {"sec", "twitter"}

\* (max_requests, time_window_seconds) of the limiters add_limiter creates
LimiterShapes == {<<1, 1>>, <<2, 2>>}

\* RateLimiter.__init__
RateLimiter(name, max, window) ==
    [name |-> name, max_requests |-> max, time_window |-> window,
     requests |-> <<>>, lock |-> "none"]

\* the position of limiters[name], 0 when name is not a key
index_of(limiters, name) ==
    IF \E i \in 1..Len(limiters) : limiters[i].name = name
    THEN CHOOSE i \in 1..Len(limiters) : limiters[i].name = name
    ELSE 0

\* self.limiters[name] = RateLimiter(...): a new key goes last, a known key
\* keeps its place
add_limiter(limiters, name, max, window) ==
    IF index_of(limiters, name) = 0
    THEN Append(limiters, RateLimiter(name, max, window))
    ELSE [limiters EXCEPT ![index_of(limiters, name)] = RateLimiter(name, max, window)]

\* RateLimiter.acquire(block=False) run by the only thread: lines 45-59
acquire_pruned(limiter, pruned, clock) ==
    IF Len(pruned) < limiter.max_requests
    THEN [limiter EXCEPT !.requests = Append(pruned, clock)]
    ELSE [limiter EXCEPT !.requests = pruned]

acquire_once(limiter, clock) ==
    acquire_pruned(limiter, popleft_old(limiter.requests, clock - limiter.time_window), clock)

\* get_wait_time, lines 84-92, on the pruned deque
wait_seconds(limiter, pruned, clock) ==
    IF Len(pruned) < limiter.max_requests THEN 0
    ELSE Max2(0, Head(pruned) + limiter.time_window - clock)

\* the thread outside every call
Idle == [pc |-> "idle", caller |-> "none", at |-> 0, entry |-> Off,
         status |-> <<>>, returned |-> [of |-> "none"]]

StatusInit ==
    /\ ms = [on |-> TRUE, clock |-> 0, limiters |-> <<>>, th |-> Idle]
    /\ tq = Off /\ sq = Off /\ aq = Off /\ db = <<>> /\ now = 0 /\ run = Off
    /\ rl = Off /\ pub = Off

\* MultiRateLimiter.add_limiter
AddLimiter ==
    /\ ms.on /\ ms.th.pc = "idle"
    /\ \E name \in LimiterNames, shape \in LimiterShapes :
          ms' = [ms EXCEPT !.limiters = add_limiter(@, name, shape[1], shape[2]),
                           !.th = Idle]
    /\ UNCHANGED <<tq, sq, aq, db, now, run, rl, pub>>

\* MultiRateLimiter.acquire(name, block=False)
MultiAcquire ==
    /\ ms.on /\ ms.th.pc = "idle"
    /\ \E name \in LimiterNames :
          /\ index_of(ms.limiters, name) > 0
          /\ lock_free(ms.limiters[index_of(ms.limiters, name)].lock)
          /\ ms' = [ms EXCEPT !.limiters[index_of(ms.limiters, name)] =
                                  acquire_once(@, ms.clock),
                              !.th = Idle]
    /\ UNCHANGED <<tq, sq, aq, db, now, run, rl, pub>>

\* a second passes
StatusClockTick ==
    /\ ms.on /\ ms.clock < MaxStatusClock
    /\ ms' = [ms EXCEPT !.clock = @ + 1]
    /\ UNCHANGED <<tq, sq, aq, db, now, run, rl, pub>>

\* limiter.get_wait_time() called on one limiter from outside get_status
CallWaitTime ==
    /\ ms.on /\ ms.th.pc = "idle"
    /\ \E i \in 1..Len(ms.limiters) :
          ms' = [ms EXCEPT !.th = [Idle EXCEPT !.pc = "wait_lock", !.caller = "main",
                                               !.at = i]]
    /\ UNCHANGED <<tq, sq, aq, db, now, run, rl, pub>>

\* get_status, line 126: status = {}
GetStatus ==
    /\ ms.on /\ ms.th.pc = "idle"
    /\ ms' = [ms EXCEPT !.th = [Idle EXCEPT !.pc = "for", !.caller = "get_status"]]
    /\ UNCHANGED <<tq, sq, aq, db, now, run, rl, pub>>

\* lines 127-128: the next limiter of the dict; with limiter.lock
StatusLock ==
    /\ ms.on /\ ms.th.pc = "for" /\ ms.th.at < Len(ms.limiters)
    /\ lock_free(ms.limiters[ms.th.at + 1].lock)
    /\ ms' = [ms EXCEPT !.limiters[ms.th.at + 1].lock = "get_status",
                        !.th.at = @ + 1, !.th.pc = "entry"]
    /\ UNCHANGED <<tq, sq, aq, db, now, run, rl, pub>>

\* lines 130-133: the dict display is evaluated item by item, up to the
\* call of limiter.get_wait_time()
StatusEntry ==
    /\ ms.on /\ ms.th.pc = "entry"
    /\ ms' = [ms EXCEPT !.th.pc = "wait_lock",
                        !.th.entry =
                            [on |-> TRUE,
                             max_requests |-> ms.limiters[ms.th.at].max_requests,
                             time_window |-> ms.limiters[ms.th.at].time_window,
                             current_requests |-> Len(ms.limiters[ms.th.at].requests)]]
    /\ UNCHANGED <<tq, sq, aq, db, now, run, rl, pub>>

\* get_wait_time, line 76: with self.lock
WaitTimeLock ==
    /\ ms.on /\ ms.th.pc = "wait_lock"
    /\ lock_free(ms.limiters[ms.th.at].lock)
    /\ ms' = [ms EXCEPT !.limiters[ms.th.at].lock = "get_wait_time",
                        !.th.pc = "wait_body"]
    /\ UNCHANGED <<tq, sq, aq, db, now, run, rl, pub>>

\* what the thread does with the value get_wait_time returned: the caller
\* outside keeps it; get_status stores the entry (line 129) and leaves its
\* own with-block, whose lock get_wait_time has already released
after_wait_time(th, name, wait) ==
    IF th.caller = "main"
    THEN [Idle EXCEPT !.returned = [of |-> "get_wait_time", value |-> wait]]
    ELSE [th EXCEPT !.pc = "raised",
                    !.status = Append(@, [name |-> name, wait_time |-> wait] @@ th.entry)]

\* get_wait_time, lines 77-92, and the return to the caller
WaitTimeReturn ==
    /\ ms.on /\ ms.th.pc = "wait_body"
    /\ \E pruned \in {popleft_old(ms.limiters[ms.th.at].requests,
                                  ms.clock - ms.limiters[ms.th.at].time_window)} :
          ms' = [ms EXCEPT !.limiters[ms.th.at].requests = pruned,
                           !.limiters[ms.th.at].lock = "none",
                           !.th = after_wait_time(ms.th, ms.limiters[ms.th.at].name,
                                     wait_seconds(ms.limiters[ms.th.at], pruned, ms.clock))]
    /\ UNCHANGED <<tq, sq, aq, db, now, run, rl, pub>>

\* line 135: return status, once the for loop is through
StatusReturn ==
    /\ ms.on /\ ms.th.pc = "for" /\ ms.th.at = Len(ms.limiters)
    /\ ms' = [ms EXCEPT !.th = [Idle EXCEPT !.returned = [of |-> "get_status",
                                                       value |-> ms.th.status]]]
    /\ UNCHANGED <<tq, sq, aq, db, now, run, rl, pub>>

\* the steps of the thread inside a call
StatusStep ==
    \/ StatusLock
    \/ StatusEntry
    \/ WaitTimeLock
    \/ WaitTimeReturn
    \/ StatusReturn

StatusNext ==
    \/ AddLimiter
    \/ MultiAcquire
    \/ StatusClockTick
    \/ CallWaitTime
    \/ GetStatus
    \/ StatusStep

SpecStatus == StatusInit /\ [][StatusNext]_vars

\* the thread is scheduled as long as it has a step to take
SpecStatusFair == SpecStatus /\ WF_vars(StatusStep)

(***************************************************************************)
(* Properties of the scorers and the tier ladders                          *)
(***************************************************************************)
\* C1: every score calculate_virality_score, CongressScorer.score and
\* HedgeFundScorer.score return lies in 0..100
C1_ScoreInRange ==
    (sq.on /\ sq.by # "none") => sq.out.virality_score \in 0..100

\* C1 witness: a purchase was given the top score 100
C1_TopInsiderScore ==
    sq.on /\ sq.by = "score_and_tier" /\ sq.out.virality_score = 100
    /\ sq.out.transaction_type = "P"

\* C3: get_tier is the step function 70/50/30 on 0..100, its result is in
\* 1..4 and it never increases when the score increases
C3_TierStepFunction ==
    (tq.on /\ tq.t1 # 0) =>
        /\ tq.t1 \in 1..4 /\ tq.t2 \in 1..4
        /\ (tq.t1 = 1) = (tq.s1 >= 70)
        /\ (tq.t1 = 2) = (50 <= tq.s1 /\ tq.s1 < 70)
        /\ (tq.t1 = 3) = (30 <= tq.s1 /\ tq.s1 < 50)
        /\ (tq.t1 = 4) = (tq.s1 < 30)
        /\ (tq.s1 <= tq.s2 => tq.t1 >= tq.t2)

\* C3 witness: two scores on either side of a step got different tiers
C3_AcrossStep ==
    tq.on /\ tq.s1 = 49 /\ tq.s2 = 50 /\ tq.t1 = 3 /\ tq.t2 = 2

\* C4: the tier scrape_congress_trades and scrape_hedge_fund_filings attach
\* to a score is the tier get_tier gives that score
C4_SameLadder ==
    /\ (tq.on /\ tq.congress # 0) => tq.congress = get_tier(tq.s1)
    /\ (tq.on /\ tq.fund # 0) => tq.fund = get_tier(tq.s1)
    /\ (tq.on /\ tq.t1 # 0) => tq.t1 = get_tier(tq.s1)

\* C4 witness: all three ladders were applied to a score on a threshold
C4_AllThreeOnThreshold ==
    tq.on /\ tq.s1 = 50 /\ tq.t1 = 2 /\ tq.congress = 2 /\ tq.fund = 2

(***************************************************************************)
(* Properties of the analyzer                                              *)
(***************************************************************************)
Analyzed == aq.on /\ aq.phase \in {"analyzed", "scored"}

Tags(trade) == JsonLoads(trade.anomalies)

HasTag(tag, trade) == tag \in Range(Tags(trade))

\* C2: a record without a usable ticker gets tier 4 from score_and_tier
C2_NoTickerTier4 ==
    (aq.on /\ aq.phase = "scored" /\ no_usable_ticker(aq.first)) => aq.first.tier = 4

\* C5: analyze returns for every record the Form 4 scraper builds
C5_AnalyzeReturns ==
    aq.on => aq.phase # "raised"

\* the tags and texts of the checks that use a lookup
LookupTags(l) ==
    IF l = "recent" THEN {"cluster_buy", "multiple_buyers", "cluster_sell"}
    ELSE IF l = "history"
    THEN {"first_purchase", "first_buy_in_years", "first_buy_in_year",
          "consecutive_buying", "seller_turned_buyer"}
    ELSE {"unusually_large", "larger_than_usual"}

LookupTexts(l) ==
    IF l = "recent"
    THEN {"insiders buying in last 2 weeks", "insiders selling - potential red flag"}
    ELSE IF l = "history"
    THEN {"First recorded purchase at this company", "First buy in years+",
          "First buy in over a year", "3rd purchase in last 90 days - high conviction",
          "Previously only sold, now buying"}
    ELSE {"x their average transaction"}

\* C6: a lookup that raises does not make analyze raise; the tags and texts
\* of the failed lookup's check are absent and all others are those of the
\* call in which no lookup fails
C6_LookupFailureSwallowed ==
    /\ (aq.on /\ aq.phase = "raised") => analyze_raises(aq.trade, db, aq.at1, {})
    /\ (Analyzed /\ ~analyze_raises(aq.trade, db, aq.at1, {})) =>
          LET full == analyze(aq.trade, db, aq.at1, {})
              tags == UNION {LookupTags(l) : l \in aq.fails}
              texts == UNION {LookupTexts(l) : l \in aq.fails}
              all == Tags(full)
          IN  /\ Tags(aq.first) = Pick(all, {i \in 1..Len(all) : all[i] \notin tags})
              /\ aq.first.anomaly_texts
                    = Pick(full.anomaly_texts, {i \in 1..Len(full.anomaly_texts) :
                                                  full.anomaly_texts[i].text \notin texts})

\* C6 witness: the recent-activity lookup failed on a purchase that has a
\* cluster; the history check still tagged it
C6_ClusterSkipped ==
    /\ Analyzed /\ aq.fails = {"recent"}
    /\ HasTag("cluster_buy", analyze(aq.trade, db, aq.at1, {}))
    /\ ~HasTag("cluster_buy", aq.first) /\ HasTag("first_purchase", aq.first)

\* what get_recent_trades_for_ticker returns to a call made on `day`
RecentAt(day) ==
    get_recent_trades_for_ticker(db, Get(aq.trade, "ticker", NoneStr), CLUSTER_DAYS, day)

Enriched(trade) ==
    LET e == score_and_tier(trade) IN
    <<e.anomalies, e.anomaly_texts, e.is_bullish, e.is_bearish, e.virality_score, e.tier>>

\* C7: two calls on the same record with the same lookup results, whenever
\* they are made, return the same annotations, score and tier
C7_Deterministic ==
    (aq.on /\ aq.again = "same record" /\ RecentAt(aq.at1) = RecentAt(aq.at2)) =>
        Enriched(aq.second) = Enriched(aq.first)

\* C8: analyze applied to the record analyze annotated, with the same
\* lookup results, returns the same anomalies and anomaly_texts
C8_Idempotent ==
    (aq.on /\ aq.again = "annotated record" /\ RecentAt(aq.at1) = RecentAt(aq.at2)) =>
        /\ aq.second.anomalies = aq.first.anomalies
        /\ aq.second.anomaly_texts = aq.first.anomaly_texts

\* the insiders whose sales of the ticker, filed in the 14 days up to `day`,
\* are in the table
RecentSellers(ticker, day) ==
    {db[i].insider_cik : i \in {j \in 1..Len(db) :
        /\ db[j].ticker = ticker /\ db[j].transaction_type = "S"
        /\ db[j].filing_date >= day - CLUSTER_DAYS}}

\* C10: a sale analyzed while three or more insiders' sales of its ticker
\* from the last 14 days are stored is tagged cluster_sell
C10_ClusterSell ==
    (/\ Analyzed /\ "recent" \notin aq.fails
     /\ aq.trade.transaction_type = "S" /\ Truthy(aq.trade.ticker)
     /\ Cardinality(RecentSellers(aq.trade.ticker, aq.at1)) >= 3)
    => HasTag("cluster_sell", aq.first)

(***************************************************************************)
(* Properties of the pipeline                                              *)
(***************************************************************************)
\* three stored purchases of one ticker by three insiders, each filed within
\* the 14 days before any of the three was processed
ClusterOfThree(i, j, k) ==
    /\ Cardinality({db[i].insider_cik, db[j].insider_cik, db[k].insider_cik}) = 3
    /\ \A x \in {i, j, k} :
          /\ db[x].transaction_type = "P" /\ db[x].ticker = db[i].ticker
          /\ \A y \in {i, j, k} : db[x].filing_date >= db[y].created_at - CLUSTER_DAYS

\* C9: when the pipeline has processed the purchases of three insiders in
\* one ticker filed within 14 days, each of the three records is tagged
\* cluster_buy
C9_ClusterBuyOnEach ==
    \A i, j, k \in 1..Len(db) :
        ClusterOfThree(i, j, k) => \A x \in {i, j, k} : HasTag("cluster_buy", db[x])

(***************************************************************************)
(* Properties of the store and of the pipeline                             *)
(***************************************************************************)
RowsOf(accession) == {i \in 1..Len(db) : db[i].accession_number = accession}

\* C11: for every accession number, the first call of insert_insider_trade
\* returns a row id and every later call returns None, the table holds
\* exactly one row for it, and the filing is among the new items of at most
\* one run
C11_InsertOnce ==
    run.on => \A a \in Accessions :
        LET e == run.ledger[a] IN
        IF e.calls = 0 THEN RowsOf(a) = {}
        ELSE /\ e.first # 0
             /\ e.later \subseteq {0}
             /\ Cardinality(RowsOf(a)) = 1
             /\ e.news = 1

\* C11 witness: a filing was scraped and inserted again, and None came back
C11_InsertedAgain ==
    run.on /\ \E a \in Accessions :
        run.ledger[a].calls = 2 /\ run.ledger[a].later = {0}
        /\ run.ledger[a].first # 0 /\ Cardinality(RowsOf(a)) = 1

(***************************************************************************)
(* Properties of the congressional variant                                 *)
(***************************************************************************)
CongressScraped == sq.on /\ sq.kind = "congress" /\ sq.by = "scrape"

\* C12: a congressional trade without a ticker (None or empty) gets tier 4
\* from scrape_congress_trades
C12_CongressNoTickerTier4 ==
    (CongressScraped /\ ~Truthy(sq.rec.ticker)) => sq.out.tier = 4

(***************************************************************************)
(* Properties of the enrichment                                            *)
(***************************************************************************)
EnrichedFields ==
    {"anomalies", "anomaly_texts", "is_bullish", "is_bearish", "virality_score", "tier"}

\* C13: analyze followed by score_and_tier sets anomalies, anomaly_texts,
\* is_bullish, is_bearish, virality_score and tier, and leaves every other
\* field of the scraped record as it was
C13_OnlyAddsFields ==
    (aq.on /\ aq.phase = "scored") =>
        /\ DOMAIN aq.first = DOMAIN aq.trade \cup EnrichedFields
        /\ \A k \in DOMAIN aq.trade \ EnrichedFields : aq.first[k] = aq.trade[k]

\* C13 witness: a record was analyzed and scored, and got tags and a score
C13_EnrichedWithTags ==
    aq.on /\ aq.phase = "scored" /\ Len(Tags(aq.first)) >= 2
    /\ aq.first.virality_score > 0 /\ aq.first.is_bullish

\* a sale of $10,000,000 by a CFO in a company with a usable ticker, whose
\* analysis found neither a complete exit nor a cluster of sellers
RoutineCfoSale(trade) ==
    /\ trade.insider_role = "CFO" /\ trade.transaction_type = "S"
    /\ trade.total_value = 10000 /\ ~no_usable_ticker(trade)
    /\ ~HasTag("complete_exit", trade) /\ ~HasTag("cluster_sell", trade)

\* C14: a routine CFO sale of $10,000,000 gets tier 2 or tier 3 from analyze
\* followed by score_and_tier
C14_RoutineCfoSaleTier ==
    (aq.on /\ aq.phase = "scored" /\ RoutineCfoSale(aq.first)) => aq.first.tier \in {2, 3}

ScrapedTags == Range(JsonLoads(sq.out.anomalies))

\* C15: CongressAnalyzer.analyze tags a record late_disclosure exactly when
\* days_to_disclose > 45: a record disclosed 46 or more days after the
\* transaction has the tag, one disclosed after exactly 45 days has
\* slow_disclosure instead, and no record has both tags
C15_LateDisclosure ==
    CongressScraped =>
        /\ ("late_disclosure" \in ScrapedTags) = (sq.rec.days_to_disclose > 45)
        /\ (sq.rec.transaction_date # NoneInt /\ sq.rec.disclosure_date # NoneInt
             /\ sq.rec.disclosure_date - sq.rec.transaction_date >= 46)
                => "late_disclosure" \in ScrapedTags
        /\ sq.rec.days_to_disclose = 45 =>
                ("slow_disclosure" \in ScrapedTags /\ "late_disclosure" \notin ScrapedTags)
        /\ ~({"late_disclosure", "slow_disclosure"} \subseteq ScrapedTags)

\* C15 witness: a trade disclosed on the 45th day was tagged slow_disclosure
C15_DisclosedOnDay45 ==
    CongressScraped /\ sq.rec.disclosure_date - sq.rec.transaction_date = 45
    /\ sq.rec.transaction_date # NoneInt /\ "slow_disclosure" \in ScrapedTags

(***************************************************************************)
(* Properties of the rate limiter                                          *)
(***************************************************************************)
\* the number of grants with a grant time in lo..hi
RECURSIVE GrantsIn(_, _)
GrantsIn(lo, hi) ==
    IF lo > hi THEN 0
    ELSE (IF lo \in 0..MaxClock THEN rl.grants[lo] ELSE 0) + GrantsIn(lo + 1, hi)

\* C16: in every interval of time_window seconds at most max_requests calls
\* of acquire were granted, and a non-blocking call that returned False
\* appended nothing to the requests
C16_NeverOverLimit ==
    rl.on =>
        /\ \A a \in 0..MaxClock : GrantsIn(a, a + time_window) <= max_requests
        /\ \A t \in Threads : rl.th[t].result = "false" => rl.th[t].appended = 0
        /\ \A c \in 0..MaxClock :
              Cardinality({i \in 1..Len(rl.requests) : rl.requests[i] = c}) <= rl.grants[c]

\* C16 witness: the window is full and a non-blocking call was refused
C16_RefusedWhenFull ==
    rl.on /\ GrantsIn(rl.clock - time_window, rl.clock) = max_requests
    /\ \E t \in Threads : rl.th[t].result = "false"


(***************************************************************************)
(* Properties of the publishing steps                                      *)
(***************************************************************************)
\* C17: when post_alerts returns, every trade get_unposted_trades gave it
\* whose virality_score is 50 or more (tier 1 or 2) was handed to Twitter
\* and Discord by post_alerts
C17_PendingAlertsPosted ==
    pub.on /\ pub.phase = "idle" =>
        \A k \in DOMAIN pub.unposted :
            pub.unposted[k].virality_score >= TIER2_SCORE
                => pub.unposted[k].id \in pub.log.pending

\* a Form 4 with this accession number is stored with a score of tier 1 or 2
StoredAlert(a) ==
    \E i \in 1..Len(db) :
        db[i].accession_number = a /\ get_tier(db[i].virality_score) <= 2

\* C18: with posting switched on (no dry run), every stored Form 4 trade of
\* tier 1 or 2 is tweeted at some time, provided the pipeline keeps being
\* run and time goes on
C18_EventuallyPublished ==
    \A a \in AlertAccessions :
        (pub.on /\ ~pub.dry_run /\ StoredAlert(a)) ~> (pub.log.tweets[a] > 0)

C20_OnlyTopTiersPublished ==
    pub.on => \A h \in pub.log.handed : h[2] \in {1, 2} /\ h[3] >= TIER2_SCORE

\* a run handed over a Form 4 trade, a congress trade and the 13F filing of
\* a famous fund whose score is below 60
C20_AllKindsPublished ==
    /\ pub.on
    /\ {h[1] : h \in pub.log.handed} = {"insider", "congress", "13f"}
    /\ \E h \in pub.log.handed : h[1] = "13f" /\ h[3] < 60

(***************************************************************************)
(* Properties of MultiRateLimiter.get_status                               *)
(***************************************************************************)
\* every registered limiter has its entry in the returned status, with the
\* four fields, and no lock is held
StatusComplete ==
    /\ ms.th.pc = "idle" /\ ms.th.returned.of = "get_status"
    /\ Len(ms.th.returned.value) = Len(ms.limiters)
    /\ \A i \in 1..Len(ms.limiters) :
          /\ ms.th.returned.value[i].name = ms.limiters[i].name
          /\ DOMAIN ms.th.returned.value[i] =
                {"on", "name", "max_requests", "time_window", "current_requests",
                 "wait_time"}
          /\ lock_free(ms.limiters[i].lock)

\* C21: get_status terminates - once the single thread has called it, with
\* no lock held by anyone, it returns a status entry for every registered
\* limiter and every limiter's lock is free again.
C21_GetStatusTerminates ==
    (ms.on /\ ms.th.pc = "for" /\ ms.th.at = 0) ~> StatusComplete

(***************************************************************************)
(* Properties of the role tags                                             *)
(***************************************************************************)
RoleBuyTags == {"ceo_founder_buy", "cfo_buy", "chairman_buy"}

\* C22: a purchase carries at most one of ceo_founder_buy, cfo_buy and
\* chairman_buy, the first match in the order CEO/Founder, CFO, Chairman; a
\* record whose role text matches CEO and CHAIRMAN has ceo_founder_buy only
C22_OneRoleTag ==
    (Analyzed /\ aq.trade.transaction_type = "P") =>
        /\ Cardinality(Range(Tags(aq.first)) \cap RoleBuyTags) <= 1
        /\ (IsCeo(analyze_role_check(aq.trade)) /\ IsChairman(analyze_role_check(aq.trade)))
              => (HasTag("ceo_founder_buy", aq.first) /\ ~HasTag("chairman_buy", aq.first))

(***************************************************************************)
(* Properties of the relative-size check                                   *)
(***************************************************************************)
\* the values of the stored trades of the analyzed record's insider in the
\* record's direction, zero and missing values left out
PriorValues ==
    {<<i, db[i].total_value>> : i \in {j \in 1..Len(db) :
        /\ db[j].insider_cik = aq.trade.insider_cik
        /\ db[j].transaction_type = aq.trade.transaction_type
        /\ db[j].total_value # NoneInt /\ db[j].total_value # 0}}

RECURSIVE SumValues(_)
SumValues(pairs) ==
    IF pairs = {} THEN 0
    ELSE LET p == CHOOSE q \in pairs : TRUE IN p[2] + SumValues(pairs \ {p})

\* C23: a record analyzed before it is stored is compared with the average
\* of all of its insider's stored same-direction trades of non-zero value,
\* the most recent one included, whenever there is at least one: it is
\* tagged unusually_large from 5 times the average and larger_than_usual
\* from 3 times up to 5 times the average
C23_AgainstAllPriorTrades ==
    (/\ Analyzed /\ "relative" \notin aq.fails
     /\ aq.trade.transaction_type \in {"P", "S"}
     /\ Truthy(aq.trade.insider_cik) /\ aq.trade.total_value > 0
     /\ PriorValues # {}) =>
        LET n == Cardinality(PriorValues)
            sum == SumValues(PriorValues)
            v == aq.trade.total_value
        IN  /\ HasTag("unusually_large", aq.first) = (v * n >= 5 * sum)
            /\ HasTag("larger_than_usual", aq.first) = (v * n >= 3 * sum /\ v * n < 5 * sum)

(***************************************************************************)
(* Properties of is_bullish and is_bearish                                 *)
(***************************************************************************)
\* C24: after analyze, is_bullish is true exactly when the record is a
\* purchase with at least one tag of the scorer's buy point table, is_bearish
\* exactly when it is a sale with at least one tag of the sell point table,
\* and the two are never both true
C24_FlagsAgreeWithTags ==
    Analyzed =>
        /\ aq.first.is_bullish = (/\ aq.trade.transaction_type = "P"
                                  /\ Range(Tags(aq.first)) \cap BuyTable # {})
        /\ aq.first.is_bearish = (/\ aq.trade.transaction_type = "S"
                                  /\ Range(Tags(aq.first)) \cap SellTable # {})
        /\ ~(aq.first.is_bullish /\ aq.first.is_bearish)

(***************************************************************************)
(* Properties of the role and size points                                  *)
(***************************************************************************)
InsiderScored == sq.on /\ sq.by = "score_and_tier"

AsPurchase(trade) == [trade EXCEPT !.transaction_type = "P"]

\* a sale by a company's president, the lowest of the senior roles
PresidentSale ==
    [insider_role |-> "President", officer_title |-> NoneStr, is_director |-> 0,
     is_officer |-> 1, is_ten_percent_owner |-> 0, transaction_type |-> "S"]

\* C25: the role points of a sale are floor(0.6 x the role points the same
\* record gets as a purchase), in every role bucket; so a sale by a role
\* ranked below President never gets more role points than a President's
C25_SaleRoleDamped ==
    (InsiderScored /\ sq.rec.transaction_type = "S") =>
        /\ role_score(sq.rec) = sale_damped(role_score(AsPurchase(sq.rec)))
        /\ role_score(AsPurchase(sq.rec)) <= role_score(AsPurchase(PresidentSale))
              => role_score(sq.rec) <= role_score(PresidentSale)

(***************************************************************************)
(* Properties of the bonuses and penalties                                 *)
(***************************************************************************)
SeniorRoles == {"CEO", "FOUNDER", "CFO", "COO", "CHAIRMAN", "CTO", "PRESIDENT"}

\* the score of a record before the synergy bonus and the final clamp
BeforeSynergy(trade) ==
    value_penalty(trade, ticker_penalty(trade, component_sum(trade)))

\* C26: a record with a Magnificent 7 ticker and a senior role gets the +5
\* synergy bonus before the final clamp, a purchase and a sale alike; a
\* record whose role is 'Director', without an officer title, never gets it
C26_SynergyBonus ==
    InsiderScored =>
        /\ (Upper(sq.rec.insider_role) \in SeniorRoles
              /\ score_ticker(sq.rec) \in MAGNIFICENT_7)
              => sq.out.virality_score = clamp_score(BeforeSynergy(sq.rec) + 5)
        /\ (sq.rec.insider_role = "Director" /\ ~Truthy(sq.rec.officer_title))
              => sq.out.virality_score = clamp_score(BeforeSynergy(sq.rec))

\* C27: the size points of a sale of value v are at most those of a purchase
\* of value v, for every v >= 0, and within a direction the size points never
\* decrease when the value increases
C27_SaleSizeBelowPurchase ==
    (InsiderScored /\ sq.rec.total_value >= 0) =>
        /\ size_ladder("S", sq.rec.total_value) <= size_ladder("P", sq.rec.total_value)
        /\ \A w \in ScoreValues :
              w <= sq.rec.total_value =>
                 size_ladder(sq.rec.transaction_type, w) <= size_score(sq.rec)

\* the adjustments of lines 235-245, each as one number
missing_ticker_penalty(trade) == IF no_usable_ticker(trade) THEN 30 ELSE 0

implausible_value_penalty(trade) == IF trade.total_value >= 1000000 THEN 20 ELSE 0

synergy_bonus(trade) ==
    IF score_ticker(trade) \in MAGNIFICENT_7 /\ role_score(trade) >= 14 THEN 5 ELSE 0

\* C28: the score is max(0, min(100, role + size + company + min(anomaly
\* points, 40) + multi-signal bonus + synergy bonus - missing-ticker penalty
\* - implausible-value penalty)): neither the floors at 0 taken after each
\* penalty nor the order of the adjustments changes the result
C28_OrderIndependent ==
    InsiderScored =>
        sq.out.virality_score =
            Max2(0, Min2(100, role_score(sq.rec) + size_score(sq.rec)
                              + company_score(sq.rec) + capped_anomaly_score(sq.rec)
                              + multi_signal_bonus(sq.rec) + synergy_bonus(sq.rec)
                              - missing_ticker_penalty(sq.rec)
                              - implausible_value_penalty(sq.rec)))

\* C28 witness: a record with both penalties was scored, and the floor after
\* the first penalty had already taken its score to 0
C28_FlooredTwice ==
    /\ InsiderScored /\ no_usable_ticker(sq.rec) /\ sq.rec.total_value >= 1000000
    /\ component_sum(sq.rec) > 0 /\ component_sum(sq.rec) < 30
    /\ sq.out.virality_score = 0

\* a purchase by a director who is nothing else: the role _determine_role
\* gives when only the director box of the form is ticked
PlainDirector(trade) ==
    /\ trade.insider_role = "Director" /\ trade.is_director = 1
    /\ ~Truthy(trade.officer_title) /\ trade.is_ten_percent_owner = 0
    /\ trade.transaction_type = "P"

\* C29: a plain director's purchase gets exactly 6 role points in
\* calculate_virality_score, the role_score explain_score reports for it
C29_DirectorBucket ==
    (sq.on /\ sq.by = "explain_score" /\ PlainDirector(sq.rec)) =>
        /\ role_score(sq.rec) = 6
        /\ role_score(sq.rec) = sq.out.explanation.role_score

(***************************************************************************)
(* Properties of the tags and the point tables                             *)
(***************************************************************************)
\* C30: every tag analyze attaches to a purchase is a key of the scorer's buy
\* point table and every tag it attaches to a sale is a key of the sell point
\* table, so no tag of analyze is scored by the 2-point default
C30_TagsInTables ==
    Analyzed =>
        /\ aq.trade.transaction_type = "P" => Range(Tags(aq.first)) \subseteq BuyTable
        /\ aq.trade.transaction_type = "S" => Range(Tags(aq.first)) \subseteq SellTable

====
